---- MODULE Spec2Model ----
(***************************************************************************)
(* Normalisation layer of the matrimonial ETL pipeline: the master-data    *)
(* cache (masters.py), the fuzzy matcher (matcher.py), the field           *)
(* validators (field_validators.py), the lookups (lookups.py, geocoding.py, *)
(* unstructured_extractor.py, gender_detection.py, helpers.py) and the     *)
(* orchestrator normalize_profile (normalisation.py).                      *)
(*                                                                         *)
(* Python strings are TLA+ strings; a character is a string of length 1.   *)
(* Python's None is the reserved string None, which lies outside the       *)
(* alphabet of every input of the model.                                   *)
(***************************************************************************)
EXTENDS Integers, Sequences, FiniteSets, TLC

\* ------------------------------------------------------------------------
\* Python string primitives
\* ------------------------------------------------------------------------

None == "~None~"

UpperChars == "ABCDEFGHIJKLMNOPQRSTUVWXYZ"
LowerChars == "abcdefghijklmnopqrstuvwxyz"
DigitChars == "0123456789"

CharAt(s, i) == SubSeq(s, i, i)

CharSet(s) == { CharAt(s, i) : i \in 1..Len(s) }

IsUpper(c) == c \in CharSet(UpperChars)
IsLowerCh(c) == c \in CharSet(LowerChars)
IsAlpha(c) == IsUpper(c) \/ IsLowerCh(c)
IsDigit(c) == c \in CharSet(DigitChars)
IsSpace(c) == c \in {" ", "\t", "\n"}
\* \w of the re module on the ASCII inputs of the model
IsWord(c) == IsAlpha(c) \/ IsDigit(c) \/ c = "_"

IndexIn(c, s) == CHOOSE i \in 1..Len(s) : CharAt(s, i) = c

LowerCh(c) == IF IsUpper(c) THEN CharAt(LowerChars, IndexIn(c, UpperChars)) ELSE c
UpperCh(c) == IF IsLowerCh(c) THEN CharAt(UpperChars, IndexIn(c, LowerChars)) ELSE c

\* character-wise maps and filters split the string in halves, so that the
\* evaluation depth stays logarithmic in its length
RECURSIVE MapLower(_)
MapLower(s) ==
    IF Len(s) = 0 THEN ""
    ELSE IF Len(s) = 1 THEN LowerCh(s)
    ELSE MapLower(SubSeq(s, 1, Len(s) \div 2)) \o MapLower(SubSeq(s, Len(s) \div 2 + 1, Len(s)))

RECURSIVE MapUpper(_)
MapUpper(s) ==
    IF Len(s) = 0 THEN ""
    ELSE IF Len(s) = 1 THEN UpperCh(s)
    ELSE MapUpper(SubSeq(s, 1, Len(s) \div 2)) \o MapUpper(SubSeq(s, Len(s) \div 2 + 1, Len(s)))

\* str.lower(), str.upper()
lower(s) == MapLower(s)
upper(s) == MapUpper(s)

NonSpaceAt(s) == { i \in 1..Len(s) : ~IsSpace(CharAt(s, i)) }

SetMin(S) == CHOOSE x \in S : \A y \in S : x <= y
SetMax(S) == CHOOSE x \in S : \A y \in S : x >= y

\* the k-th smallest element of a set of numbers
Kth(S, k) == CHOOSE x \in S : Cardinality({ y \in S : y < x }) = k - 1

\* str.strip()
strip(s) ==
    IF NonSpaceAt(s) = {} THEN ""
    ELSE SubSeq(s, SetMin(NonSpaceAt(s)), SetMax(NonSpaceAt(s)))

\* `sub in s`
Contains(s, sub) ==
    \E i \in 1..(Len(s) - Len(sub) + 1) : SubSeq(s, i, i + Len(sub) - 1) = sub

StartsWith(s, p) == Len(p) <= Len(s) /\ SubSeq(s, 1, Len(p)) = p
EndsWith(s, p) == Len(p) <= Len(s) /\ SubSeq(s, Len(s) - Len(p) + 1, Len(s)) = p

\* the tokens of str.split(): maximal runs of non-whitespace characters
TokenStarts(s) ==
    { i \in 1..Len(s) : ~IsSpace(CharAt(s, i)) /\ (i = 1 \/ IsSpace(CharAt(s, i - 1))) }

TokenEnd(s, i) ==
    CHOOSE e \in i..Len(s) :
        /\ \A j \in i..e : ~IsSpace(CharAt(s, j))
        /\ e = Len(s) \/ IsSpace(CharAt(s, e + 1))

split(s) ==
    [k \in 1..Cardinality(TokenStarts(s)) |->
        SubSeq(s, Kth(TokenStarts(s), k), TokenEnd(s, Kth(TokenStarts(s), k)))]

\* str.split(sep) for a one-character separator: empty pieces are kept
SepAt(s, sep) == { i \in 1..Len(s) : CharAt(s, i) = sep }

splitOn(s, sep) ==
    LET cuts == {0} \cup SepAt(s, sep) \cup {Len(s) + 1}
    IN  [k \in 1..(Cardinality(cuts) - 1) |->
            SubSeq(s, Kth(cuts, k) + 1, Kth(cuts, k + 1) - 1)]

\* sep.join(parts)
RECURSIVE join(_, _)
join(sep, parts) ==
    IF parts = <<>> THEN ""
    ELSE IF Len(parts) = 1 THEN parts[1]
    ELSE parts[1] \o sep \o join(sep, Tail(parts))

\* word.capitalize(): first character upper-cased, the rest lower-cased
capitalize(w) == IF w = "" THEN "" ELSE UpperCh(Head(w)) \o lower(Tail(w))

\* str(x): None prints as the text "None"
str(x) == IF x = None THEN "None" ELSE x

\* Python truthiness of an Optional[str]
Truthy(x) == x # None /\ x # ""

\* `a or b` on Optional[str]
Or(a, b) == IF Truthy(a) THEN a ELSE b

AllChars(s, P(_)) == \A i \in 1..Len(s) : P(CharAt(s, i))

Max(a, b) == IF a >= b THEN a ELSE b
Min(a, b) == IF a <= b THEN a ELSE b

\* a list comprehension: the values of f as a tuple, each computed once
ListOf(f) == f \o <<>>

Range(f) == { f[i] : i \in DOMAIN f }


\* ------------------------------------------------------------------------
\* The re module: patterns as trees, matched with Python's backtracking
\* priority (first alternative first, quantifiers greedy)
\* ------------------------------------------------------------------------

RLit(lit) == [t |-> "lit", s |-> lit]
RSet(cs) == [t |-> "set", cs |-> cs]
RNotSet(cs) == [t |-> "nset", cs |-> cs]
RSeq(rs) == [t |-> "seq", rs |-> rs]
RAlt(rs) == [t |-> "alt", rs |-> rs]
RRep(r, lo, hi) == [t |-> "rep", r |-> r, lo |-> lo, hi |-> hi]
\* an upper repetition count no input of the model reaches
Unbounded == 1000
ROpt(r) == RRep(r, 0, 1)
RStar(r) == RRep(r, 0, Unbounded)
RPlus(r) == RRep(r, 1, Unbounded)
RWordB == [t |-> "wb"]
RBegin == [t |-> "bos"]
REnd == [t |-> "eos"]

\* an alternation of literal words
RWords(ws) == RAlt([i \in DOMAIN ws |-> RLit(ws[i])])

Letters == CharSet(UpperChars) \cup CharSet(LowerChars)
Digits == CharSet(DigitChars)
Spaces == {" ", "\t", "\n"}
WordChars == Letters \cup Digits \cup {"_"}

\* a character under re.IGNORECASE
Fold(x, ic) == IF ic THEN lower(x) ELSE x

InSet(c, cs, ic) == c \in cs \/ (ic /\ (LowerCh(c) \in cs \/ UpperCh(c) \in cs))

IsWordAt(s, i) == i >= 1 /\ i <= Len(s) /\ CharAt(s, i) \in WordChars

RECURSIVE Match(_, _, _, _)
RECURSIVE MatchSeq(_, _, _, _, _)
RECURSIVE MatchSeqFrom(_, _, _, _, _)
RECURSIVE MatchAlt(_, _, _, _, _)
RECURSIVE MatchRep(_, _, _, _, _, _)
RECURSIVE MatchRepFrom(_, _, _, _, _, _, _)

\* the positions where a match of r starting at position i of s can end,
\* in the order the backtracking matcher tries them
Match(r, s, i, ic) ==
    CASE r.t = "lit" ->
            IF i + Len(r.s) - 1 <= Len(s) /\ Fold(SubSeq(s, i, i + Len(r.s) - 1), ic) = Fold(r.s, ic)
            THEN <<i + Len(r.s)>> ELSE <<>>
      [] r.t = "set" ->
            IF i <= Len(s) /\ InSet(CharAt(s, i), r.cs, ic) THEN <<i + 1>> ELSE <<>>
      [] r.t = "nset" ->
            IF i <= Len(s) /\ ~InSet(CharAt(s, i), r.cs, ic) THEN <<i + 1>> ELSE <<>>
      [] r.t = "seq" -> MatchSeq(r.rs, 1, s, i, ic)
      [] r.t = "alt" -> MatchAlt(r.rs, 1, s, i, ic)
      [] r.t = "rep" -> MatchRep(r.r, r.lo, r.hi, s, i, ic)
      [] r.t = "wb" -> IF IsWordAt(s, i - 1) # IsWordAt(s, i) THEN <<i>> ELSE <<>>
      [] r.t = "bos" -> IF i = 1 THEN <<i>> ELSE <<>>
      [] r.t = "eos" ->
            IF i = Len(s) + 1 \/ (i = Len(s) /\ CharAt(s, i) = "\n") THEN <<i>> ELSE <<>>

MatchSeq(rs, k, s, i, ic) ==
    IF k > Len(rs) THEN <<i>>
    ELSE MatchSeqFrom(rs, k, s, Match(rs[k], s, i, ic), ic)

MatchSeqFrom(rs, k, s, js, ic) ==
    IF js = <<>> THEN <<>>
    ELSE MatchSeq(rs, k + 1, s, Head(js), ic) \o MatchSeqFrom(rs, k, s, Tail(js), ic)

MatchAlt(rs, k, s, i, ic) ==
    IF k > Len(rs) THEN <<>>
    ELSE Match(rs[k], s, i, ic) \o MatchAlt(rs, k + 1, s, i, ic)

\* the length of the run of characters accepted by the one-character
\* pattern r that starts at position i
RunLen(r, s, i, ic) ==
    LET ok(j) == IF r.t = "set" THEN InSet(CharAt(s, j), r.cs, ic)
                 ELSE ~InSet(CharAt(s, j), r.cs, ic)
    IN  CHOOSE n \in 0..(Len(s) - i + 1) :
            /\ \A j \in i..(i + n - 1) : ok(j)
            /\ i + n = Len(s) + 1 \/ ~ok(i + n)

\* a quantified character class ends after its longest run first
MatchRepSet(r, lo, hi, s, i, ic) ==
    LET m == Min(RunLen(r, s, i, ic), hi)
    IN  IF m < lo THEN <<>> ELSE [k \in 1..(m - lo + 1) |-> i + m - k + 1]

MatchRep(r, lo, hi, s, i, ic) ==
    IF r.t \in {"set", "nset"} THEN MatchRepSet(r, lo, hi, s, i, ic)
    ELSE (IF hi = 0 THEN <<>> ELSE MatchRepFrom(r, lo, hi, s, i, Match(r, s, i, ic), ic))
         \o (IF lo = 0 THEN <<i>> ELSE <<>>)

MatchRepFrom(r, lo, hi, s, i, js, ic) ==
    IF js = <<>> THEN <<>>
    ELSE (IF Head(js) > i THEN MatchRep(r, Max(lo - 1, 0), hi - 1, s, Head(js), ic) ELSE <<>>)
         \o MatchRepFrom(r, lo, hi, s, i, Tail(js), ic)

\* re.match(r, s): the pattern matches at the start of s
re_match(r, s, ic) == Match(r, s, 1, ic) # <<>>

\* re.search(r, s) from position i on: the first match as <<start, end>>,
\* or <<>>
SearchFrom(r, s, i, ic) ==
    LET First(hits) ==
            IF hits = {} THEN <<>> ELSE <<SetMin(hits), Head(Match(r, s, SetMin(hits), ic))>>
    IN  First({ j \in i..(Len(s) + 1) : Match(r, s, j, ic) # <<>> })

re_search(r, s, ic) == SearchFrom(r, s, 1, ic) # <<>>

\* re.findall / re.finditer: the texts of the non-overlapping matches, left
\* to right
RECURSIVE FindAllFrom(_, _, _, _)
FindAllFrom(r, s, i, ic) ==
    LET Rest(m) ==
            IF m = <<>> THEN <<>>
            ELSE <<SubSeq(s, m[1], m[2] - 1)>>
                 \o FindAllFrom(r, s, IF m[2] > m[1] THEN m[2] ELSE m[2] + 1, ic)
    IN  Rest(SearchFrom(r, s, i, ic))

re_findall(r, s, ic) == FindAllFrom(r, s, 1, ic)

\* ------------------------------------------------------------------------
\* The similarity libraries behind matcher.py and geocoding.py (rapidfuzz,
\* fuzzywuzzy, difflib).  A score is an exact fraction <<n, d>> of value
\* n / d on the 0..100 scale.
\* ------------------------------------------------------------------------

RECURSIVE Gcd(_, _)
Gcd(a, b) == IF b = 0 THEN a ELSE Gcd(b, a % b)

\* the fraction n / d in lowest terms
Score(n, d) == <<n \div Gcd(n, d), d \div Gcd(n, d)>>
Zero == Score(0, 1)
Hundred == Score(100, 1)

\* comparison by integer part, then by fractional part
ScoreGT(x, y) ==
    \/ x[1] \div x[2] > y[1] \div y[2]
    \/ /\ x[1] \div x[2] = y[1] \div y[2]
       /\ (x[1] % x[2]) * y[2] > (y[1] % y[2]) * x[2]
ScoreGE(x, y) == ~ScoreGT(y, x)
ScoreMax(x, y) == IF ScoreGE(x, y) THEN x ELSE y
\* x scaled by pct per cent
Scaled(x, pct) == Score(x[1] * pct, x[2] * 100)
\* int(round(x)) of a score
RoundScore(x) == (2 * x[1] + x[2]) \div (2 * x[2])

\* length of the longest common subsequence, one row of the table at a
\* time; a row is the tuple of its entries for the prefixes of b, the empty
\* prefix first
RECURSIVE LcsRowFrom(_, _, _, _)
LcsRowFrom(c, b, prev, acc) ==
    IF Len(acc) = Len(b) + 1 THEN acc
    ELSE LET j == Len(acc)
             v == IF j = 0 THEN 0
                  ELSE IF CharAt(b, j) = c THEN prev[j] + 1
                  ELSE Max(prev[j + 1], acc[j])
         IN  LcsRowFrom(c, b, prev, Append(acc, v))

RECURSIVE LcsRow(_, _, _, _)
LcsRow(a, b, i, prev) ==
    IF Len(prev) = 0 \/ i > Len(a) THEN prev[Len(b) + 1]
    ELSE LcsRow(a, b, i + 1, LcsRowFrom(CharAt(a, i), b, prev, <<>>))

LcsLen(a, b) == LcsRow(a, b, 1, [j \in 1..(Len(b) + 1) |-> 0])

\* fuzz.ratio: the normalised indel similarity
ratio(a, b) ==
    IF Len(a) + Len(b) = 0 THEN Hundred
    ELSE Score(200 * LcsLen(a, b), Len(a) + Len(b))

\* the best score in a set of scores
BestOf(S) == CHOOSE x \in S : \A y \in S : ScoreGE(x, y)

\* fuzz.partial_ratio: the shorter string against every window of the
\* longer one (windows of its own length, and the shorter ones at both ends)
partial_ratio(a, b) ==
    LET sh == IF Len(a) <= Len(b) THEN a ELSE b
        lg == IF Len(a) <= Len(b) THEN b ELSE a
        wins == { <<i, j>> \in (1..Len(lg)) \X (1..Len(lg)) :
                     /\ i <= j /\ j - i + 1 <= Len(sh)
                     /\ (j - i + 1 = Len(sh) \/ i = 1 \/ j = Len(lg)) }
    IN  IF Len(sh) = 0 THEN (IF Len(lg) = 0 THEN Hundred ELSE Zero)
        ELSE BestOf({ ratio(sh, SubSeq(lg, w[1], w[2])) : w \in wins })

\* code-point order of the characters the model uses
Ascii == " !#$%&'()*+,-./0123456789:;<=>?@ABCDEFGHIJKLMNOPQRSTUVWXYZ[]^_abcdefghijklmnopqrstuvwxyz{|}~"

Ord(c) == IndexIn(c, Ascii)

\* a < b in Python's string order
StrLess(a, b) ==
    \/ Len(a) < Len(b) /\ SubSeq(b, 1, Len(a)) = a
    \/ \E i \in 1..Min(Len(a), Len(b)) :
          /\ SubSeq(a, 1, i - 1) = SubSeq(b, 1, i - 1)
          /\ Ord(CharAt(a, i)) < Ord(CharAt(b, i))

\* sorted(S) for a set of strings
SortedSet(S) ==
    [k \in 1..Cardinality(S) |->
        CHOOSE x \in S : Cardinality({ y \in S : StrLess(y, x) }) = k - 1]

\* sorted(q) for a list of strings
SortedSeq(q) ==
    LET before(i, j) == StrLess(q[i], q[j]) \/ (q[i] = q[j] /\ i < j)
    IN  [k \in 1..Len(q) |->
            q[CHOOSE j \in 1..Len(q) : Cardinality({ i \in 1..Len(q) : before(i, j) }) = k - 1]]

token_sort_ratio(a, b) ==
    ratio(join(" ", SortedSeq(split(a))), join(" ", SortedSeq(split(b))))

partial_token_sort_ratio(a, b) ==
    partial_ratio(join(" ", SortedSeq(split(a))), join(" ", SortedSeq(split(b))))

\* the three strings token_set_ratio compares
TokenSets(a, b) ==
    LET Strings(both, sect, ab, ba) ==
            [both |-> both, sect |-> sect, ab |-> ab, ba |-> ba,
             sect_ab |-> strip(sect \o " " \o ab), sect_ba |-> strip(sect \o " " \o ba)]
        Of(ta, tb) ==
            Strings(ta \cap tb, join(" ", SortedSet(ta \cap tb)), join(" ", SortedSet(ta \ tb)),
                    join(" ", SortedSet(tb \ ta)))
    IN  Of(Range(split(a)), Range(split(b)))

token_set_ratio(a, b) ==
    LET Of(t) ==
            IF t.both # {} /\ (t.ab = "" \/ t.ba = "") THEN Hundred
            ELSE IF t.both = {} THEN ratio(t.sect_ab, t.sect_ba)
            ELSE BestOf({ratio(t.sect_ab, t.sect_ba), ratio(t.sect, t.sect_ab),
                         ratio(t.sect, t.sect_ba)})
    IN  IF split(a) = <<>> \/ split(b) = <<>> THEN Zero ELSE Of(TokenSets(a, b))

partial_token_set_ratio(a, b) ==
    LET Of(t) == IF t.both # {} THEN Hundred ELSE partial_ratio(t.ab, t.ba)
    IN  IF split(a) = <<>> \/ split(b) = <<>> THEN Zero ELSE Of(TokenSets(a, b))

\* fuzz.WRatio
WRatio(a, b) ==
    IF Len(a) = 0 \/ Len(b) = 0 THEN Zero
    ELSE LET lmax == Max(Len(a), Len(b))
             lmin == Min(Len(a), Len(b))
             base == ratio(a, b)
         IN  IF 2 * lmax < 3 * lmin
             THEN BestOf({base, Scaled(token_sort_ratio(a, b), 95),
                          Scaled(token_set_ratio(a, b), 95)})
             ELSE LET ps == IF lmax < 8 * lmin THEN 90 ELSE 60
                  IN  BestOf({base, Scaled(partial_ratio(a, b), ps),
                              Scaled(Scaled(partial_token_sort_ratio(a, b), 95), ps),
                              Scaled(Scaled(partial_token_set_ratio(a, b), 95), ps)})

\* difflib.SequenceMatcher: total size of the matching blocks, found by
\* taking the longest common block (earliest in a, then earliest in b) and
\* recursing on both sides of it
CommonBlocks(a, b) ==
    { <<i, j, k>> \in (1..Len(a)) \X (1..Len(b)) \X (1..Min(Len(a), Len(b))) :
        /\ i + k - 1 <= Len(a) /\ j + k - 1 <= Len(b)
        /\ SubSeq(a, i, i + k - 1) = SubSeq(b, j, j + k - 1) }

LongestBlock(a, b) ==
    CHOOSE m \in CommonBlocks(a, b) :
        \A n \in CommonBlocks(a, b) :
            \/ m[3] > n[3]
            \/ m[3] = n[3] /\ m[1] < n[1]
            \/ m[3] = n[3] /\ m[1] = n[1] /\ m[2] <= n[2]

RECURSIVE MatchingSize(_, _)
MatchingSize(a, b) ==
    IF CommonBlocks(a, b) = {} THEN 0
    ELSE LET m == LongestBlock(a, b)
         IN  m[3] + MatchingSize(SubSeq(a, 1, m[1] - 1), SubSeq(b, 1, m[2] - 1))
                  + MatchingSize(SubSeq(a, m[1] + m[3], Len(a)), SubSeq(b, m[2] + m[3], Len(b)))

\* utils.full_process of fuzzywuzzy: every character that is not a letter
\* or a digit becomes a space, then lower() and strip()
RECURSIVE AlnumOnly(_)
AlnumOnly(s) ==
    IF Len(s) = 0 THEN ""
    ELSE IF Len(s) = 1 THEN (IF IsAlpha(s) \/ IsDigit(s) THEN s ELSE " ")
    ELSE AlnumOnly(SubSeq(s, 1, Len(s) \div 2)) \o AlnumOnly(SubSeq(s, Len(s) \div 2 + 1, Len(s)))

full_process(s) == strip(lower(AlnumOnly(s)))

\* ------------------------------------------------------------------------
\* masters.py: the backing files and the process-wide cache
\* ------------------------------------------------------------------------

\* DEFAULT_MASTER_FILES: the logical keys that have a backing file name
MasterKeys == {"height", "occupation", "qualification", "caste", "country_state",
               "biodata_output", "marital_status", "manglik"}

\* a key no file name is registered for (load_master raises KeyError)
UnknownKey == "horoscope"

\* a table as pandas reads it: column names and rows of cells; a null cell
\* (NaN) is None
Table(cols, rows) == [cols |-> cols, rows |-> rows]

MaritalStatusMst ==
    Table(<<"Marital Status">>,
          << <<"Single">>, <<"Married">>, <<"Divorced">>, <<"Widowed">>,
             <<"Separated">>, <<"Un-Married">>, <<"Awaiting Divorce">> >>)

ManglikMst == Table(<<"Manglik">>, << <<"Yes">>, <<"No">>, <<"Don't Know">> >>)

CasteMst ==
    Table(<<"Jaati", "Caste", "Gotra", "Sakha">>,
          << <<"Pareek", "Brahmin", "Upmanyu", "Rigveda">>,
             <<"Joshi", "Brahmin", "Kashyap", None>>,
             <<"Agarwal", "Bania", "Garg", "Yajurveda">>,
             <<"Garga", "Kshatriya", "Vatsa", "Samaveda">> >>)

QualificationMst ==
    Table(<<"Qualification">>, << <<"B.Tech">>, <<"MBA">>, <<"M.Sc">>, <<"B.Com">> >>)

OccupationMst ==
    Table(<<"Occupation">>, << <<"Engineer">>, <<"Teacher">>, <<"Business">> >>)

CountryStateMst ==
    Table(<<"Country", "State", "City", "Pincode">>,
          << <<"India", "Rajasthan", "Jaipur", "302001">>,
             <<"India", "Maharashtra", "Mumbai", "400001">>,
             <<"USA", "California", "Fremont", "94536">> >>)

HeightMst == Table(<<"Height">>, << <<"5ft 8in (173 cms)">>, <<"5ft 11in (180 cms)">> >>)

\* the header-only schema file, when a deployment supplies one
ExternalHeader == <<"full_name", "gender", "marital_status", "manglik", "state", "mobile_no">>

BiodataOutput == Table(ExternalHeader, <<>>)

\* what pd.read_excel returns for the file of a key
Storage(key) ==
    CASE key = "height" -> HeightMst
      [] key = "occupation" -> OccupationMst
      [] key = "qualification" -> QualificationMst
      [] key = "caste" -> CasteMst
      [] key = "country_state" -> CountryStateMst
      [] key = "biodata_output" -> BiodataOutput
      [] key = "marital_status" -> MaritalStatusMst
      [] key = "manglik" -> ManglikMst

\* the state of a backing file: present and readable, absent, or present
\* but read_excel raises on it
FileStates == {"ok", "missing", "unreadable"}

\* a dict extended or overwritten at one key
Put(d, k, v) == [x \in (DOMAIN d) \cup {k} |-> IF x = k THEN v ELSE d[x]]

EmptyDict == [x \in {} |-> None]

\* _find_file: the path when the file exists in one of the two places
_find_file(fs, key) == IF fs[key] = "missing" THEN None ELSE key

NoTable == [id |-> 0, cols |-> <<>>, rows |-> <<>>]

\* pd.read_excel(path): a new DataFrame object; id tells the objects that
\* successive reads of one file produce apart
read_excel(key, n) == [id |-> n, cols |-> Storage(key).cols, rows |-> Storage(key).rows]

\* the masters module state: _CACHE and the number of read_excel runs per key
NoReads == [k \in MasterKeys |-> 0]
MastersInit == [cache |-> EmptyDict, reads |-> NoReads]

CountRead(m, key) == [m EXCEPT !.reads[key] = @ + 1]

\* load_master with the cache test of line 44 left out
load_master_reread(m, fs, key) ==
    IF key \notin MasterKeys
    THEN [status |-> "KeyError", table |-> NoTable, m |-> m]
    ELSE IF _find_file(fs, key) = None
    THEN [status |-> "FileNotFoundError", table |-> NoTable, m |-> m]
    ELSE IF fs[key] = "unreadable"
    THEN [status |-> "ReadError", table |-> NoTable, m |-> CountRead(m, key)]
    ELSE LET df == read_excel(key, m.reads[key] + 1)
         IN  [status |-> "ok", table |-> df,
              m |-> [cache |-> Put(m.cache, key, df), reads |-> CountRead(m, key).reads]]

\* load_master as one call.  The result carries the returned table or the
\* exception raised, and the module state after the call.
load_master(m, fs, key) ==
    IF key \in DOMAIN m.cache
    THEN [status |-> "ok", table |-> m.cache[key], m |-> m]
    ELSE IF key \notin MasterKeys
    THEN [status |-> "KeyError", table |-> NoTable, m |-> m]
    ELSE IF _find_file(fs, key) = None
    THEN [status |-> "FileNotFoundError", table |-> NoTable, m |-> m]
    ELSE IF fs[key] = "unreadable"
    THEN [status |-> "ReadError", table |-> NoTable, m |-> CountRead(m, key)]
    ELSE LET df == read_excel(key, m.reads[key] + 1)
         IN  [status |-> "ok", table |-> df,
              m |-> [cache |-> Put(m.cache, key, df), reads |-> CountRead(m, key).reads]]

\* ------------------------------------------------------------------------
\* matcher.py
\* ------------------------------------------------------------------------

\* _difflib_score
_difflib_score(a, b) ==
    IF Len(a) + Len(b) = 0 THEN Hundred
    ELSE Score(200 * MatchingSize(a, b), Len(a) + Len(b))

\* BestIndex taking the last among equals
BestIndex_last(scores, floor) ==
    LET Last(top) == IF top = {} THEN 0 ELSE SetMax(top)
        Top(good) == Last({ i \in good : \A j \in good : ScoreGE(scores[i], scores[j]) })
    IN  Top({ i \in DOMAIN scores : ScoreGT(scores[i], floor) \/ scores[i] = floor })

\* the index of the best choice under a scorer, the first one among equals;
\* 0 when no choice scores above `floor`
BestIndex(scores, floor) ==
    LET First(top) == IF top = {} THEN 0 ELSE SetMin(top)
        Top(good) == First({ i \in good : \A j \in good : ScoreGE(scores[i], scores[j]) })
    IN  Top({ i \in DOMAIN scores : ScoreGT(scores[i], floor) \/ scores[i] = floor })

\* the threshold 80.0 of DEFAULT_CONFIG and of the lookups
Threshold80 == Score(80, 1)

\* match_one without the threshold test of line 53
match_one_any_score(query, choices, threshold, rf) ==
    LET Result(best_match, best_score, reason) ==
            [match |-> best_match, score |-> best_score, reason |-> reason]
        Best(scores, b, reason) ==
            Result(IF b = 0 THEN None ELSE choices[b], IF b = 0 THEN Zero ELSE scores[b], reason)
        First(top) == IF top = {} THEN 0 ELSE SetMin(top)
        Top(scores, pos) == First({ i \in pos : \A j \in pos : ScoreGE(scores[i], scores[j]) })
        \* process.extractOne(q, choices_list, scorer=fuzz.WRatio)
        Rapid(scores) == Best(scores, BestIndex(scores, Zero), "rapidfuzz")
        \* the loop of lines 46-50: only a strictly better score replaces
        Difflib(scores) ==
            Best(scores, Top(scores, { i \in DOMAIN scores : ScoreGT(scores[i], Zero) }),
                 "difflib")
        Of(q) ==
            IF q = "" THEN [match |-> None, score |-> Zero, reason |-> "empty query"]
            ELSE IF rf THEN Rapid(ListOf([i \in DOMAIN choices |-> WRatio(q, choices[i])]))
            ELSE Difflib(ListOf([i \in DOMAIN choices |->
                                  _difflib_score(lower(q), lower(choices[i]))]))
    IN  Of(strip(Or(query, "")))

\* match_one(query, choices, scorer="auto", threshold); rf tells whether the
\* rapidfuzz import of line 11 succeeded
match_one(query, choices, threshold, rf) ==
    LET Result(best_match, best_score, reason) ==
            IF ScoreGE(best_score, threshold)
            THEN [match |-> best_match, score |-> best_score, reason |-> reason]
            ELSE [match |-> None, score |-> best_score, reason |-> reason]
        Best(scores, b, reason) ==
            Result(IF b = 0 THEN None ELSE choices[b], IF b = 0 THEN Zero ELSE scores[b], reason)
        First(top) == IF top = {} THEN 0 ELSE SetMin(top)
        Top(scores, pos) == First({ i \in pos : \A j \in pos : ScoreGE(scores[i], scores[j]) })
        \* process.extractOne(q, choices_list, scorer=fuzz.WRatio)
        Rapid(scores) == Best(scores, BestIndex(scores, Zero), "rapidfuzz")
        \* the loop of lines 46-50: only a strictly better score replaces
        Difflib(scores) ==
            Best(scores, Top(scores, { i \in DOMAIN scores : ScoreGT(scores[i], Zero) }),
                 "difflib")
        Of(q) ==
            IF q = "" THEN [match |-> None, score |-> Zero, reason |-> "empty query"]
            ELSE IF rf THEN Rapid(ListOf([i \in DOMAIN choices |-> WRatio(q, choices[i])]))
            ELSE Difflib(ListOf([i \in DOMAIN choices |->
                                  _difflib_score(lower(q), lower(choices[i]))]))
    IN  Of(strip(Or(query, "")))

\* fuzzy_process.extractOne(query, choices) of fuzzywuzzy: WRatio on the
\* processed strings, the score rounded to an integer; the first choice
\* among those of the best score, <<>> for an empty choice list
fuzzy_extractOne(query, choices) ==
    LET Pick(scores, top) == <<choices[SetMin(top)], scores[SetMin(top)]>>
        Of(scores) ==
            Pick(scores, { i \in DOMAIN choices : \A j \in DOMAIN choices : scores[i] >= scores[j] })
    IN  IF choices = <<>> THEN <<>>
        ELSE Of(ListOf([i \in DOMAIN choices |->
                         RoundScore(WRatio(full_process(query), full_process(choices[i])))]))

\* ------------------------------------------------------------------------
\* helpers.py
\* ------------------------------------------------------------------------

clean_str(value) ==
    LET Of(t) == IF t = "" THEN None ELSE t
    IN  IF value = None THEN None ELSE Of(join(" ", split(strip(str(value)))))

NonEmpty(x) == x # ""

parse_name(full_name) ==
    LET FirstWord(words) == IF words # <<>> THEN words[1] ELSE None
        Named(s, cparts, parts) ==
            IF Contains(s, ",") /\ Len(cparts) >= 2 THEN <<FirstWord(split(cparts[2])), cparts[1]>>
            ELSE IF Len(parts) = 1 THEN <<parts[1], None>>
            ELSE <<parts[1], parts[Len(parts)]>>
        Stripped(pieces) == ListOf([i \in DOMAIN pieces |-> strip(pieces[i])])
        Of(s) ==
            IF ~Truthy(s) THEN <<None, None>>
            ELSE Named(s, SelectSeq(Stripped(splitOn(s, ",")), NonEmpty), split(s))
    IN  Of(clean_str(full_name))

normalize_via_master(raw, master_values, threshold, rf) ==
    LET Of(s) == IF ~Truthy(s) THEN None ELSE match_one(s, master_values, threshold, rf).match
    IN  Of(clean_str(raw))

MARITAL_ALLOWED ==
    <<"-", "Awaiting Divorce", "Committed", "Divorced", "Married", "Un-Married", "Widow",
      "Widower", "Single", "Widowed", "Separated">>

MANGLIK_ALLOWED == <<"Yes", "No", "Don't Know">>

\* the first member of a list that equals x case-insensitively, or None
FirstEqualIgnoreCase(list, x) ==
    LET hits == { i \in DOMAIN list : lower(list[i]) = lower(x) }
    IN  IF hits = {} THEN None ELSE list[SetMin(hits)]

\* dict.get on a dict written as a list of <<key, value>> pairs
HasKey(pairs, k) == \E i \in DOMAIN pairs : pairs[i][1] = k
Get(pairs, k) == pairs[CHOOSE i \in DOMAIN pairs : pairs[i][1] = k][2]

MaritalVariants ==
    << <<"unmarried", "Un-Married">>, <<"single", "Single">>, <<"separated", "Separated">>,
       <<"awaiting divorce", "Awaiting Divorce">>, <<"awaiting_divorce", "Awaiting Divorce">>,
       <<"awaiting-divorce", "Awaiting Divorce">>, <<"divorced", "Divorced">>,
       <<"married", "Married">>, <<"widow", "Widow">>, <<"widower", "Widower">>,
       <<"widowed", "Widowed">>, <<"committed", "Committed">>, <<"-", "-">> >>

normalize_marital_status(raw, threshold, rf) ==
    LET s == clean_str(raw)
        low == lower(s)
    IN  IF ~Truthy(s) THEN None
        ELSE IF FirstEqualIgnoreCase(MARITAL_ALLOWED, low) # None
        THEN FirstEqualIgnoreCase(MARITAL_ALLOWED, low)
        ELSE IF HasKey(MaritalVariants, low) THEN Get(MaritalVariants, low)
        ELSE match_one(s, MARITAL_ALLOWED, threshold, rf).match

ManglikVariants ==
    << <<"yes", "Yes">>, <<"y", "Yes">>, <<"true", "Yes">>, <<"no", "No">>, <<"n", "No">>,
       <<"false", "No">>, <<"dont know", "Don't Know">>, <<"don't know", "Don't Know">>,
       <<"dontknow", "Don't Know">>, <<"unknown", "Don't Know">>, <<"maybe", None>> >>

\* re.sub(r"[^a-z0-9 ]", "", low)
RECURSIVE KeepLowerAlnumSpace(_)
KeepLowerAlnumSpace(s) ==
    IF Len(s) = 0 THEN ""
    ELSE IF Len(s) = 1 THEN (IF IsLowerCh(s) \/ IsDigit(s) \/ s = " " THEN s ELSE "")
    ELSE KeepLowerAlnumSpace(SubSeq(s, 1, Len(s) \div 2))
         \o KeepLowerAlnumSpace(SubSeq(s, Len(s) \div 2 + 1, Len(s)))

normalize_manglik(raw, threshold, rf) ==
    LET s == clean_str(raw)
        low == lower(s)
        low_clean == KeepLowerAlnumSpace(low)
    IN  IF ~Truthy(s) THEN None
        ELSE IF FirstEqualIgnoreCase(MANGLIK_ALLOWED, low) # None
        THEN FirstEqualIgnoreCase(MANGLIK_ALLOWED, low)
        ELSE IF HasKey(ManglikVariants, low_clean) THEN Get(ManglikVariants, low_clean)
        ELSE match_one(s, MANGLIK_ALLOWED, threshold, rf).match

\* ------------------------------------------------------------------------
\* pandas: the DataFrame operations the lookups use
\* ------------------------------------------------------------------------

NotNull(x) == x # None

\* str(cell): a null cell prints as "nan"
CellStr(x) == IF x = None THEN "nan" ELSE x

\* Series.dropna()
dropna(q) == SelectSeq(q, NotNull)

\* Series.astype(str)
astype_str(q) == [i \in DOMAIN q |-> CellStr(q[i])]

\* Series.unique(): the values in order of first appearance
unique(q) ==
    LET Of(firsts) == [k \in 1..Cardinality(firsts) |-> q[Kth(firsts, k)]]
    IN  Of({ i \in DOMAIN q : \A j \in 1..(i - 1) : q[j] # q[i] })

\* position of a column name in df.columns, 0 when it is not a column
ColIndex(df, name) ==
    LET hits == { i \in DOMAIN df.cols : df.cols[i] = name }
    IN  IF hits = {} THEN 0 ELSE SetMin(hits)

\* df[name] as a list of cells
Column(df, c) == [i \in DOMAIN df.rows |-> df.rows[i][c]]

\* df.empty
IsEmptyFrame(df) == df.rows = <<>> \/ df.cols = <<>>

\* s.replace(" ", "_")
RECURSIVE SpacesToUnderscores(_)
SpacesToUnderscores(s) ==
    IF Len(s) = 0 THEN ""
    ELSE IF Len(s) = 1 THEN (IF s = " " THEN "_" ELSE s)
    ELSE SpacesToUnderscores(SubSeq(s, 1, Len(s) \div 2))
         \o SpacesToUnderscores(SubSeq(s, Len(s) \div 2 + 1, Len(s)))

\* [col.lower().replace(' ', '_') for col in df.columns]
StandardColumns(cols) == [i \in DOMAIN cols |-> SpacesToUnderscores(lower(cols[i]))]

\* `df.columns = ...` on the table load_master returned: the table is the
\* cached object, so the assignment renames the columns in the cache
RenameCached(m, key, cols) == [m EXCEPT !.cache[key].cols = cols]

\* the first index of a list that satisfies a test, 0 when none does
FirstWhere(q, Test(_)) ==
    LET hits == { i \in DOMAIN q : Test(q[i]) }
    IN  IF hits = {} THEN 0 ELSE SetMin(hits)

\* ------------------------------------------------------------------------
\* lookups.py
\* ------------------------------------------------------------------------

\* the None a dict-valued lookup returns for "not found": its callers test
\* the result for truth only, which an empty dict fails as None does
NoDict == [k \in {} |-> None]

\* str(row.get(name, "")).strip() or None
RowGet(df, i, name) ==
    LET c == ColIndex(df, name)
        text == IF c = 0 THEN "" ELSE strip(CellStr(df.rows[i][c]))
    IN  IF text = "" THEN None ELSE text

CasteRow(df, i) ==
    [jaati |-> RowGet(df, i, "jaati"), caste |-> RowGet(df, i, "caste"),
     gotra |-> RowGet(df, i, "gotra"), sakha |-> RowGet(df, i, "sakha")]

search_fields == <<"gotra", "sakha", "caste", "jaati">>

\* the rows whose non-null cell of a column equals the value, ignoring case
ExactRows(df, c, value) ==
    { i \in DOMAIN df.rows :
        df.rows[i][c] # None /\ strip(lower(df.rows[i][c])) = lower(value) }

\* the row the fuzzy pass of lines 77-92 finds through one column, 0 if none
FuzzyRow(df, c, value, rf) ==
    LET RowOf(rows) == IF rows = {} THEN 0 ELSE SetMin(rows)
        Matched(match) ==
            IF ~Truthy(match) THEN 0
            ELSE RowOf({ i \in DOMAIN df.rows :
                           strip(lower(CellStr(df.rows[i][c]))) = lower(match) })
        Among(field_values) ==
            Matched(IF field_values = <<>> THEN None
                    ELSE match_one(value, field_values, Threshold80, rf).match)
    IN  Among(astype_str(dropna(Column(df, c))))

\* the first entry of a list of row numbers that is a row, 0 when none is
FirstHit(q) ==
    LET Of(k) == IF k = 0 THEN 0 ELSE q[k]
    IN  Of(FirstWhere(q, LAMBDA r : r # 0))

\* the lookup with the approximate pass tried before the exact one
lookup_caste_by_any_field_fuzzy_first(value, m, fs, rf) ==
    LET RowOf(rows) == IF rows = {} THEN 0 ELSE SetMin(rows)
        Row(df, m2, i) ==
            IF i = 0 THEN [val |-> NoDict, m |-> m2] ELSE [val |-> CasteRow(df, i), m |-> m2]
        \* lines 77-92: the fuzzy pass, taken when the exact pass found no row
        Fuzzy(v, df, m2, present) ==
            Row(df, m2, FirstHit(ListOf([k \in DOMAIN present |->
                                            FuzzyRow(df, ColIndex(df, present[k]), v, rf)])))
        Exact(v, df, m2, present, e) ==
            IF Fuzzy(v, df, m2, present).val # NoDict THEN Fuzzy(v, df, m2, present)
            ELSE Row(df, m2, e)
        Search(v, df, m2, present) ==
            Exact(v, df, m2, present,
                  FirstHit(ListOf([k \in DOMAIN present |->
                                      RowOf(ExactRows(df, ColIndex(df, present[k]), v))])))
        InTable(v, L, df) ==
            IF L.status # "ok" THEN [val |-> NoDict, m |-> L.m]
            ELSE Search(v, df, RenameCached(L.m, "caste", df.cols),
                        SelectSeq(search_fields, LAMBDA f : ColIndex(df, f) # 0))
        Loaded(v, L) == InTable(v, L, [L.table EXCEPT !.cols = StandardColumns(@)])
    IN  IF ~Truthy(value) \/ strip(value) = "" THEN [val |-> NoDict, m |-> m]
        ELSE Loaded(strip(value), load_master(m, fs, "caste"))

\* lookup_caste_by_any_field(value): the record returned, NoDict for None,
\* and the cache after the call
lookup_caste_by_any_field(value, m, fs, rf) ==
    LET RowOf(rows) == IF rows = {} THEN 0 ELSE SetMin(rows)
        Row(df, m2, i) ==
            IF i = 0 THEN [val |-> NoDict, m |-> m2] ELSE [val |-> CasteRow(df, i), m |-> m2]
        \* lines 77-92: the fuzzy pass, taken when the exact pass found no row
        Fuzzy(v, df, m2, present) ==
            Row(df, m2, FirstHit(ListOf([k \in DOMAIN present |->
                                            FuzzyRow(df, ColIndex(df, present[k]), v, rf)])))
        Exact(v, df, m2, present, e) ==
            IF e # 0 THEN Row(df, m2, e) ELSE Fuzzy(v, df, m2, present)
        Search(v, df, m2, present) ==
            Exact(v, df, m2, present,
                  FirstHit(ListOf([k \in DOMAIN present |->
                                      RowOf(ExactRows(df, ColIndex(df, present[k]), v))])))
        InTable(v, L, df) ==
            IF L.status # "ok" THEN [val |-> NoDict, m |-> L.m]
            ELSE Search(v, df, RenameCached(L.m, "caste", df.cols),
                        SelectSeq(search_fields, LAMBDA f : ColIndex(df, f) # 0))
        Loaded(v, L) == InTable(v, L, [L.table EXCEPT !.cols = StandardColumns(@)])
    IN  IF ~Truthy(value) \/ strip(value) = "" THEN [val |-> NoDict, m |-> m]
        ELSE Loaded(strip(value), load_master(m, fs, "caste"))

\* dict.get(k) on a dict given as a function: None for a missing key
DictGet(d, k) == IF k \in DOMAIN d THEN d[k] ELSE None

address_fields == <<"country", "state", "city", "zip_code", "postal_code">>

\* lines 205-211: per field, the first column named like the field whose
\* cell in the row is not null
AddressResult(df, i) ==
    LET col(f) == FirstWhere([c \in DOMAIN df.cols |-> c],
                     LAMBDA c : (df.cols[c] = f \/ StartsWith(df.cols[c], f))
                                /\ df.rows[i][c] # None)
        found == { k \in DOMAIN address_fields : col(address_fields[k]) # 0 }
    IN  [f \in { address_fields[k] : k \in found } |-> strip(df.rows[i][col(f)])]

lookup_address_by_pincode(pin_code, m, fs) ==
    LET RowOf(rows) == IF rows = {} THEN 0 ELSE SetMin(rows)
        WithZip(pin, result) ==
            IF "zip_code" \in DOMAIN result THEN result ELSE Put(result, "zip_code", pin)
        Row(pin, df, m2, hit) ==
            IF hit = 0 THEN [val |-> NoDict, m |-> m2]
            ELSE [val |-> WithZip(pin, AddressResult(df, hit)), m |-> m2]
        Search(pin, df, m2, pin_cols) ==
            Row(pin, df, m2,
                FirstHit(ListOf([k \in DOMAIN pin_cols |->
                                    RowOf({ i \in DOMAIN df.rows :
                                              strip(CellStr(df.rows[i][pin_cols[k]])) = pin })])))
        InTable(pin, L, df) ==
            IF L.status # "ok" THEN [val |-> NoDict, m |-> L.m]
            ELSE Search(pin, df, RenameCached(L.m, "country_state", df.cols),
                        SelectSeq([c \in DOMAIN df.cols |-> c],
                            LAMBDA c : Contains(df.cols[c], "pin") \/ Contains(df.cols[c], "zip")
                                       \/ Contains(df.cols[c], "postal")))
        Loaded(pin, L) == InTable(pin, L, [L.table EXCEPT !.cols = StandardColumns(@)])
    IN  IF ~Truthy(pin_code) \/ strip(pin_code) = "" THEN [val |-> NoDict, m |-> m]
        ELSE Loaded(strip(pin_code), load_master(m, fs, "country_state"))

\* the loop over df[col].dropna() shared by the single-column lookups: the
\* first master value equal to the value ignoring case, stripped, or None
ExactMaster(df, value) ==
    LET Hit(vals, k) == IF k = 0 THEN None ELSE strip(vals[k])
        Of(vals) == Hit(vals, FirstWhere(vals, LAMBDA x : strip(lower(x)) = lower(value)))
    IN  Of(dropna(Column(df, 1)))

FuzzyMaster(df, value, rf) ==
    match_one(value, astype_str(dropna(Column(df, 1))), Threshold80, rf).match

\* lookup_marital_status and lookup_manglik differ only in the master they
\* load
strict_lookup(key, value, m, fs, rf) ==
    LET Found(v, L, exact) ==
            IF exact # None THEN [val |-> exact, m |-> L.m]
            ELSE [val |-> FuzzyMaster(L.table, v, rf), m |-> L.m]
        Loaded(v, L) ==
            IF L.status # "ok" THEN [val |-> None, m |-> L.m]
            ELSE Found(v, L, ExactMaster(L.table, v))
    IN  IF ~Truthy(value) \/ strip(value) = "" THEN [val |-> None, m |-> m]
        ELSE Loaded(strip(value), load_master(m, fs, key))

lookup_marital_status(value, m, fs, rf) == strict_lookup("marital_status", value, m, fs, rf)

lookup_manglik(value, m, fs, rf) == strict_lookup("manglik", value, m, fs, rf)

lookup_occupation(value, m, fs, rf) ==
    LET Found(v, L, exact) ==
            IF exact # None THEN [val |-> exact, m |-> L.m]
            ELSE [val |-> Or(FuzzyMaster(L.table, v, rf), v), m |-> L.m]
        Loaded(v, L) ==
            IF L.status # "ok" THEN [val |-> v, m |-> L.m]
            ELSE Found(v, L, ExactMaster(L.table, v))
    IN  IF ~Truthy(value) \/ strip(value) = "" THEN [val |-> None, m |-> m]
        ELSE Loaded(strip(value), load_master(m, fs, "occupation"))

abbrev_map ==
    << <<"IT", "Information Technology">>, <<"CS", "Computer Science">>,
       <<"CSE", "Computer Science">>, <<"ECE", "Electronics and Communication">>,
       <<"ME", "Mechanical Engineering">>, <<"CE", "Civil Engineering">>,
       <<"EEE", "Electrical and Electronics Engineering">>, <<"HR", "Human Resources">>,
       <<"BM", "Business Management">>, <<"FM", "Finance Management">> >>

\* pattern1 = ^([A-Za-z.]+)\s*\(([^)]+)\)$
pattern1 ==
    RSeq(<<RBegin, RPlus(RSet(CharSet(UpperChars) \cup CharSet(LowerChars) \cup {"."})),
           RStar(RSet(Spaces)), RLit("("), RPlus(RNotSet({")"})), RLit(")"), REnd>>)

\* the two groups of pattern1 on a string it matches: the leading run of
\* letters and dots, and the text between the parenthesis after it and the
\* closing one
Pattern1Groups(s) ==
    LET n == RunLen(RSet(CharSet(UpperChars) \cup CharSet(LowerChars) \cup {"."}), s, 1, FALSE)
        open == SetMin(SepAt(s, "("))
        close == SetMax(SepAt(s, ")"))
    IN  <<SubSeq(s, 1, n), SubSeq(s, open + 1, close - 1)>>

\* re.split(r'\s+', s, maxsplit=1) on a stripped string
SplitFirstSpace(s) ==
    LET sp == { i \in 1..Len(s) : IsSpace(CharAt(s, i)) }
    IN  IF sp = {} THEN <<s>>
        ELSE <<SubSeq(s, 1, SetMin(sp) - 1),
               SubSeq(s, SetMin({ i \in SetMin(sp)..Len(s) : ~IsSpace(CharAt(s, i)) }), Len(s))>>

\* the parser emitting the degree token itself when the master has no match
parse_education_specialization_lenient(education_str, m, fs, rf) ==
    LET Matched(match) == IF Truthy(match) THEN match ELSE None
        Degree(L, degree_raw, exact) ==
            IF ~Truthy(degree_raw) THEN None
            ELSE IF Truthy(exact) THEN exact
            ELSE Or(FuzzyMaster(L.table, degree_raw, rf), degree_raw)
        Specialization(spec_raw) ==
            IF ~Truthy(spec_raw) THEN None
            ELSE IF HasKey(abbrev_map, upper(spec_raw)) THEN strip(Get(abbrev_map, upper(spec_raw)))
            ELSE strip(spec_raw)
        \* <<degree_raw, spec_raw>>
        Raw(s, parts) ==
            IF re_match(pattern1, s, FALSE)
            THEN <<strip(Pattern1Groups(s)[1]), strip(Pattern1Groups(s)[2])>>
            ELSE IF Len(parts) = 2 THEN <<strip(parts[1]), strip(parts[2])>>
            ELSE <<s, None>>
        Of(L, r) ==
            IF L.status # "ok" THEN [education |-> None, specialization |-> None, m |-> L.m]
            ELSE [education |-> Degree(L, r[1], ExactMaster(L.table, r[1])),
                  specialization |-> Specialization(r[2]), m |-> L.m]
    IN  IF ~Truthy(education_str) \/ strip(education_str) = ""
        THEN [education |-> None, specialization |-> None, m |-> m]
        ELSE Of(load_master(m, fs, "qualification"),
                Raw(strip(education_str), SplitFirstSpace(strip(education_str))))

\* parse_education_specialization(education_str): the pair returned and the
\* cache after the call
parse_education_specialization(education_str, m, fs, rf) ==
    LET Matched(match) == IF Truthy(match) THEN match ELSE None
        Degree(L, degree_raw, exact) ==
            IF ~Truthy(degree_raw) THEN None
            ELSE IF Truthy(exact) THEN exact
            ELSE Matched(FuzzyMaster(L.table, degree_raw, rf))
        Specialization(spec_raw) ==
            IF ~Truthy(spec_raw) THEN None
            ELSE IF HasKey(abbrev_map, upper(spec_raw)) THEN strip(Get(abbrev_map, upper(spec_raw)))
            ELSE strip(spec_raw)
        \* <<degree_raw, spec_raw>>
        Raw(s, parts) ==
            IF re_match(pattern1, s, FALSE)
            THEN <<strip(Pattern1Groups(s)[1]), strip(Pattern1Groups(s)[2])>>
            ELSE IF Len(parts) = 2 THEN <<strip(parts[1]), strip(parts[2])>>
            ELSE <<s, None>>
        Of(L, r) ==
            IF L.status # "ok" THEN [education |-> None, specialization |-> None, m |-> L.m]
            ELSE [education |-> Degree(L, r[1], ExactMaster(L.table, r[1])),
                  specialization |-> Specialization(r[2]), m |-> L.m]
    IN  IF ~Truthy(education_str) \/ strip(education_str) = ""
        THEN [education |-> None, specialization |-> None, m |-> m]
        ELSE Of(load_master(m, fs, "qualification"),
                Raw(strip(education_str), SplitFirstSpace(strip(education_str))))

\* masters.get_master_values(key, column): the values, or the exception
\* (a column that is not in the table raises KeyError)
get_master_values(m, fs, key, column) ==
    LET Values(L, c) ==
            IF c = 0 THEN [status |-> "KeyError", values |-> <<>>, m |-> L.m]
            ELSE [status |-> "ok", values |-> astype_str(dropna(Column(L.table, c))), m |-> L.m]
        Of(L) ==
            IF L.status # "ok" THEN [status |-> L.status, values |-> <<>>, m |-> L.m]
            ELSE Values(L, ColIndex(L.table, column))
    IN  Of(load_master(m, fs, key))

\* ------------------------------------------------------------------------
\* gender_detection.py
\* ------------------------------------------------------------------------

FEMALE_SUFFIXES ==
    << "a", "i", "ee", "ya", "ta", "na", "da", "ka", "ha", "amma", "ina", "ita", "uma",
       "iya", "ini", "ara", "ela", "e", "ie", "ine", "ene", "ene", "ette", "elle",
       "oise" >>

FEMALE_NAMES ==
    { "aisha", "amira", "ananya", "anita", "anjali", "bhavna", "deepa", "dimple",
       "divya", "diya", "farah", "geeta", "jaya", "jyoti", "kalpana", "kamala",
       "kanchan", "kaveri", "kavya", "kiran", "lalita", "leela", "madhuri", "malini",
       "meena", "mona", "namrata", "neetu", "neha", "nikita", "nisha", "niti", "padma",
       "parita", "pooja", "pratibha", "preeti", "priya", "pushpa", "rachna", "radhika",
       "ramita", "rani", "ranjana", "reena", "riya", "sadhana", "sakshi", "sarala",
       "sarita", "savita", "savitri", "seema", "shailaja", "shalini", "shanti", "sharda",
       "sharmila", "sheela", "shikha", "shilpa", "shobha", "shreya", "shruti", "shweta",
       "simran", "sneha", "soniya", "sudha", "sulekha", "sumitra", "sunaina", "sundari",
       "sunita", "supriya", "suruchi", "sushma", "swapna", "swati", "sweta", "tanvi",
       "tejal", "tiya", "trisha", "tulsi", "usha", "vandana", "varada", "varsha",
       "vasundhra", "vedavati", "veena", "vidhi", "vidya", "vijaya", "vikrama", "vimla",
       "vinaya", "vini", "vinita", "violetta", "vipasha", "viraja", "virali", "vishakha",
       "vishalakshi", "vistra", "vituja", "vrinda", "vyomini", "wanda", "xavier",
       "xenia", "yandra", "yashoda", "yasmin", "yasmine", "yavnika", "yedda", "yogita",
       "yolanda", "yoruba", "yuvanika", "yuvika", "zaara", "zainab", "zara", "zarina",
       "zarith", "zeena", "zenobia", "zephyr", "zietha", "zipra", "zita", "ziva", "zoey",
       "zorina", "zoya" }

MALE_SUFFIXES ==
    << "u", "an", "ar", "or", "er", "en", "on", "esh", "ash", "ank", "it", "et", "at",
       "ot", "ut", "pal", "dev", "nath", "shar", "singh", "singh", "kumar", "gupta",
       "sharma", "verma", "o", "os", "us", "as", "is", "el", "il", "al", "son", "sen",
       "man", "berg", "stein", "baum", "feld" >>

MALE_NAMES ==
    { "aditya", "amit", "amol", "aneesh", "ankur", "anmol", "anup", "arjun", "arun",
       "aryan", "ashish", "ashok", "ashwani", "asif", "atul", "aurobindo", "avijit",
       "avinash", "avinder", "avneesh", "axel", "ayush", "bablu", "badri", "bajrang",
       "balaji", "balaram", "baldev", "balendra", "balendu", "balgopal", "balraj",
       "balram", "baman", "banmali", "bansi", "bapu", "bapurao", "baradwaj", "barath",
       "barkha", "baruch", "basant", "basavraj", "bashir", "basil", "baskaran", "basu",
       "basudeb", "basudeo", "basudev", "basudeva", "basuki", "basurao", "basva", "bata",
       "batuk", "batuknath", "baul", "bava", "bavaji", "bavakumar", "bavani", "bavesh",
       "bavish", "bawali", "baxiv", "bayadere", "bayard", "bayu", "bazaa", "bbmohd",
       "beach", "beadle", "beale", "beals", "beaman", "bean", "beane", "beanj", "beanna",
       "beard", "bearden", "beards", "beare", "bearer", "bearfield", "bearn", "beary",
       "beasley", "beason", "beat", "beata", "beathen", "beatibox", "beatle", "beatles",
       "beatley", "beatone", "beatrice", "beatrix", "beatty", "beau", "beaubien",
       "beaudeat", "beaudet", "beaudin", "beaudoin", "beaudon", "beaudonmarie",
       "beaudreau", "beaudry", "beauford", "beaufoys", "beaugrand", "beaujean",
       "beaujeu", "beaulac", "beaulaurier", "beaulavois", "beaulavsky", "beauleaf",
       "beaumarchais", "beaumaris", "beaumelle", "beaumont", "beaumonts",
       "beaumontsmith", "beaumur" }

FEMALE_CONTEXT_CLUES ==
    << \* (?:pregnant|pregnancy|expecting|pregnant)
       RWords(<<"pregnant", "pregnancy", "expecting", "pregnant">>),
       \* (?:daughter|sister|wife|mother|girl|lady|woman|her|she)
       RWords(<<"daughter", "sister", "wife", "mother", "girl", "lady", "woman", "her",
           "she">>),
       \* (?:bride|bride-to-be|engagement)
       RWords(<<"bride", "bride-to-be", "engagement">>),
       \* (?:maiden|spinster|unmarried|divorced)
       RWords(<<"maiden", "spinster", "unmarried", "divorced">>),
       \* (?:mother|aunt|cousin)
       RWords(<<"mother", "aunt", "cousin">>) >>

MALE_CONTEXT_CLUES ==
    << \* (?:son|brother|husband|father|boy|man|him|he)
       RWords(<<"son", "brother", "husband", "father", "boy", "man", "him", "he">>),
       \* (?:groom|groom-to-be|engagement)
       RWords(<<"groom", "groom-to-be", "engagement">>),
       \* (?:bachelor|widower|divorced)
       RWords(<<"bachelor", "widower", "divorced">>),
       \* (?:father|uncle|cousin)
       RWords(<<"father", "uncle", "cousin">>),
       \* (?:professional|engineer|doctor|businessman)
       RWords(<<"professional", "engineer", "doctor", "businessman">>) >>

\* a dict with string keys: d.get(k), None for a missing key
get(d, k) == IF k \in DOMAIN d THEN d[k] ELSE None

\* str(d.get(k, ''))
GetText(d, k) == IF k \in DOMAIN d THEN str(d[k]) ELSE ""

StrongSuffix(first_name, suffixes, short) ==
    \E k \in DOMAIN suffixes :
        /\ EndsWith(first_name, suffixes[k])
        /\ Len(suffixes[k]) >= 2 \/ suffixes[k] \in short

infer_gender_from_name(name) ==
    LET Of(first_name) ==
            IF first_name \in FEMALE_NAMES THEN "Female"
            ELSE IF first_name \in MALE_NAMES THEN "Male"
            ELSE IF StrongSuffix(first_name, FEMALE_SUFFIXES, {"a", "i"}) THEN "Female"
            ELSE IF StrongSuffix(first_name, MALE_SUFFIXES, {"u", "an"}) THEN "Male"
            ELSE None
    IN  IF ~Truthy(name) \/ strip(lower(name)) = "" THEN None
        ELSE Of(split(strip(lower(name)))[1])

\* the sum over the patterns of len(re.findall(pattern, text_lower, re.IGNORECASE))
RECURSIVE ClueCount(_, _)
ClueCount(patterns, text) ==
    IF patterns = <<>> THEN 0
    ELSE Len(re_findall(Head(patterns), text, TRUE)) + ClueCount(Tail(patterns), text)

infer_gender_from_context(text) ==
    LET Of(female_score, male_score) ==
            IF female_score > male_score /\ female_score >= 2 THEN "Female"
            ELSE IF male_score > female_score /\ male_score >= 2 THEN "Male"
            ELSE None
    IN  IF ~Truthy(text) THEN None
        ELSE Of(ClueCount(FEMALE_CONTEXT_CLUES, lower(text)),
                ClueCount(MALE_CONTEXT_CLUES, lower(text)))

\* auto_detect_gender falling back to a guess
auto_detect_gender_guess(biodata) ==
    LET ByName(name) == IF Truthy(name) THEN infer_gender_from_name(str(name)) ELSE None
        Of(gender, gender_val, by_name, context_text) ==
            IF Truthy(gender) /\ gender_val \in {"male", "m"} THEN "Male"
            ELSE IF Truthy(gender) /\ gender_val \in {"female", "f"} THEN "Female"
            ELSE IF by_name # None THEN by_name
            ELSE IF Truthy(context_text) THEN infer_gender_from_context(context_text)
            ELSE "Male"
    IN  Of(get(biodata, "gender"), strip(lower(str(get(biodata, "gender")))),
           ByName(Or(get(biodata, "full_name"),
                     Or(get(biodata, "first_name"), get(biodata, "name")))),
           Or(GetText(biodata, "notes"), Or(GetText(biodata, "description"),
              Or(GetText(biodata, "text"), GetText(biodata, "raw_text")))))

auto_detect_gender(biodata) ==
    LET ByName(name) == IF Truthy(name) THEN infer_gender_from_name(str(name)) ELSE None
        Of(gender, gender_val, by_name, context_text) ==
            IF Truthy(gender) /\ gender_val \in {"male", "m"} THEN "Male"
            ELSE IF Truthy(gender) /\ gender_val \in {"female", "f"} THEN "Female"
            ELSE IF by_name # None THEN by_name
            ELSE IF Truthy(context_text) THEN infer_gender_from_context(context_text)
            ELSE None
    IN  Of(get(biodata, "gender"), strip(lower(str(get(biodata, "gender")))),
           ByName(Or(get(biodata, "full_name"),
                     Or(get(biodata, "first_name"), get(biodata, "name")))),
           Or(GetText(biodata, "notes"), Or(GetText(biodata, "description"),
              Or(GetText(biodata, "text"), GetText(biodata, "raw_text")))))

\* ------------------------------------------------------------------------
\* geocoding.py
\* ------------------------------------------------------------------------

\* fuzz.token_set_ratio of fuzzywuzzy: both strings processed, the score an
\* integer
fw_token_set_ratio(a, b) ==
    LET Of(pa, pb) == IF pa = "" \/ pb = "" THEN 0 ELSE RoundScore(token_set_ratio(pa, pb))
    IN  Of(full_process(a), full_process(b))

\* the columns whose lower-cased name contains one of the words
ColumnsLike(df, words) ==
    SelectSeq([c \in DOMAIN df.cols |-> c],
              LAMBDA c : \E w \in words : Contains(lower(df.cols[c]), w))

\* the dict built from a row at lines 119-123, 164-168 and 293-297: the
\* non-null cells under standardised column names (a later column of the
\* same name overwrites an earlier one)
RowDict(df, i) ==
    LET Of(std, filled) ==
            [k \in { std[c] : c \in filled } |->
                strip(df.rows[i][SetMax({ c \in filled : std[c] = k })])]
    IN  Of(StandardColumns(df.cols), { c \in DOMAIN df.cols : df.rows[i][c] # None })

\* rows kept by `frame[frame[col].astype(str).str.lower() == value.lower()]`
\* when value is given and such a column exists
FilterRows(df, rows, words, value) ==
    LET Of(cols) ==
            IF ~Truthy(value) \/ cols = <<>> THEN rows
            ELSE { i \in rows : lower(CellStr(df.rows[i][cols[1]])) = lower(value) }
    IN  Of(ColumnsLike(df, words))

_lookup_by_city_state(df, city, state) ==
    LET Of(rows) == IF rows = {} THEN NoDict ELSE RowDict(df, SetMin(rows))
    IN  IF ~Truthy(city) /\ ~Truthy(state) THEN NoDict
        ELSE Of(FilterRows(df, FilterRows(df, DOMAIN df.rows, {"city"}, city), {"state"}, state))

\* lines 100-113: the candidates in loop order, each <<score, row>>; the
\* best is the first one with the highest positive score
BestAddressRow(df, rows, address_cols, address) ==
    LET \* a scored candidate is <<score, k, i>>
        before(x, y) == x[2] < y[2] \/ (x[2] = y[2] /\ x[3] < y[3])
        First(x) == <<x[1], x[3]>>
        Pick(best) == IF best = {} THEN <<0, 0>> ELSE First(CHOOSE x \in best : TRUE)
        Best(scored) ==
            Pick({ x \in scored :
                     x[1] > 0 /\ \A y \in scored :
                                    y[1] < x[1] \/ (y[1] = x[1] /\ ~before(y, x)) })
    IN  Best({ <<fw_token_set_ratio(lower(address),
                                    lower(strip(df.rows[x[2]][address_cols[x[1]]]))),
                 x[1], x[2]>> :
                 x \in { <<k, i>> \in (DOMAIN address_cols) \X rows :
                           df.rows[i][address_cols[k]] # None } })

lookup_zipcode_by_address(address, city, state, m, fs) ==
    LET Best(df, mm, best) ==
            IF best[2] > 0 /\ best[1] >= 60 THEN [val |-> RowDict(df, best[2]), m |-> mm]
            ELSE [val |-> NoDict, m |-> mm]
        Search(df, mm, address_cols, filtered) ==
            IF address_cols = <<>> THEN [val |-> _lookup_by_city_state(df, city, state), m |-> mm]
            ELSE Best(df, mm, BestAddressRow(df, IF filtered = {} THEN DOMAIN df.rows ELSE filtered,
                                             address_cols, strip(address)))
        Loaded(L) ==
            IF L.status # "ok" THEN [val |-> NoDict, m |-> L.m]
            ELSE Search(L.table, L.m,
                        ColumnsLike(L.table, {"address", "street", "area", "locality", "place"}),
                        FilterRows(L.table, FilterRows(L.table, DOMAIN L.table.rows, {"city"}, city),
                                   {"state"}, state))
    IN  IF ~Truthy(address) \/ strip(address) = "" THEN [val |-> NoDict, m |-> m]
        ELSE Loaded(load_master(m, fs, "country_state"))

\* zip_match = re.search(r'\b\d{5,6}\b', full_address)
ZipPattern == RSeq(<<RWordB, RRep(RSet(Digits), 5, 6), RWordB>>)

\* extract_address_components(...).get("zip_code"); the other components
\* are not read by normalize_profile
extract_address_components(full_address) ==
    LET Of(zip_match) ==
            IF zip_match = <<>> THEN [zip_code |-> None]
            ELSE [zip_code |-> SubSeq(full_address, zip_match[1], zip_match[2] - 1)]
    IN  IF ~Truthy(full_address) THEN [zip_code |-> None]
        ELSE Of(SearchFrom(ZipPattern, full_address, 1, FALSE))

\* the rows of find_closest_zipcode in result order: best score first, rows
\* of equal score in table order, at most ten
find_closest_zipcode(partial_address, threshold, m, fs) ==
    LET before(scores, i, j) == scores[i] > scores[j] \/ (scores[i] = scores[j] /\ i < j)
        Ordered(df, mm, scores, kept) ==
            [val |-> ListOf([k \in 1..Min(Cardinality(kept), 10) |->
                               RowDict(df, CHOOSE j \in kept :
                                             Cardinality({ i \in kept : before(scores, i, j) })
                                                 = k - 1)]),
             m |-> mm]
        Ranked(df, mm, scores) ==
            Ordered(df, mm, scores, { i \in DOMAIN df.rows : scores[i] >= threshold })
        \* max_score of a row: its best score over the address columns
        Search(p, df, mm, address_cols) ==
            IF address_cols = <<>> THEN [val |-> <<>>, m |-> mm]
            ELSE Ranked(df, mm,
                        ListOf([i \in DOMAIN df.rows |->
                                  SetMax({0} \cup
                                         { fw_token_set_ratio(
                                               lower(p),
                                               lower(strip(CellStr(df.rows[i][address_cols[k]])))) :
                                             k \in DOMAIN address_cols })]))
        Loaded(p, L) ==
            IF L.status # "ok" THEN [val |-> <<>>, m |-> L.m]
            ELSE Search(p, L.table, L.m,
                        ColumnsLike(L.table, {"address", "street", "area", "locality", "city"}))
    IN  IF ~Truthy(partial_address) \/ strip(partial_address) = "" THEN [val |-> <<>>, m |-> m]
        ELSE Loaded(strip(partial_address), load_master(m, fs, "country_state"))

\* ------------------------------------------------------------------------
\* unstructured_extractor.py
\* ------------------------------------------------------------------------

degree_markers ==
    << \* \b(?:B\.?A|BA|Bachelor of Arts?)\b
       RSeq(<<RWordB, RLit("B"), RAlt(<<RSeq(<<ROpt(RLit(".")), RLit("A")>>), RLit("A"),
           RSeq(<<RLit("achelor of Art"), ROpt(RLit("s"))>>)>>), RWordB>>),
       \* \b(?:B\.?Sc|BSc|Bachelor of Science?)\b
       RSeq(<<RWordB, RLit("B"), RAlt(<<RSeq(<<ROpt(RLit(".")), RLit("Sc")>>), RLit("Sc"),
           RSeq(<<RLit("achelor of Scienc"), ROpt(RLit("e"))>>)>>), RWordB>>),
       \* \b(?:B\.?Com|BCom|Bachelor of Commerce?)\b
       RSeq(<<RWordB, RLit("B"), RAlt(<<RSeq(<<ROpt(RLit(".")), RLit("Com")>>),
           RLit("Com"), RSeq(<<RLit("achelor of Commerc"), ROpt(RLit("e"))>>)>>), RWordB>>),
       \* \b(?:B\.?Tech|BTech|Bachelor of Technology?)\b
       RSeq(<<RWordB, RLit("B"), RAlt(<<RSeq(<<ROpt(RLit(".")), RLit("Tech")>>),
           RLit("Tech"), RSeq(<<RLit("achelor of Technolog"), ROpt(RLit("y"))>>)>>),
           RWordB>>),
       \* \b(?:B\.?E|BE|Bachelor of Engineer[ing]*)\b
       RSeq(<<RWordB, RLit("B"), RAlt(<<RSeq(<<ROpt(RLit(".")), RLit("E")>>), RLit("E"),
           RSeq(<<RLit("achelor of Engineer"), RStar(RSet({"i", "n", "g"}))>>)>>),
           RWordB>>),
       \* \b(?:M\.?A|MA|Master of Arts?)\b
       RSeq(<<RWordB, RLit("M"), RAlt(<<RSeq(<<ROpt(RLit(".")), RLit("A")>>), RLit("A"),
           RSeq(<<RLit("aster of Art"), ROpt(RLit("s"))>>)>>), RWordB>>),
       \* \b(?:M\.?Sc|MSc|Master of Science?)\b
       RSeq(<<RWordB, RLit("M"), RAlt(<<RSeq(<<ROpt(RLit(".")), RLit("Sc")>>), RLit("Sc"),
           RSeq(<<RLit("aster of Scienc"), ROpt(RLit("e"))>>)>>), RWordB>>),
       \* \b(?:M\.?Com|MCom|Master of Commerce?)\b
       RSeq(<<RWordB, RLit("M"), RAlt(<<RSeq(<<ROpt(RLit(".")), RLit("Com")>>),
           RLit("Com"), RSeq(<<RLit("aster of Commerc"), ROpt(RLit("e"))>>)>>), RWordB>>),
       \* \b(?:M\.?Tech|MTech|Master of Technology?)\b
       RSeq(<<RWordB, RLit("M"), RAlt(<<RSeq(<<ROpt(RLit(".")), RLit("Tech")>>),
           RLit("Tech"), RSeq(<<RLit("aster of Technolog"), ROpt(RLit("y"))>>)>>),
           RWordB>>),
       \* \b(?:M\.?B\.?A|MBA|Master of Business Admin[istration]*)\b
       RSeq(<<RWordB, RLit("M"), RAlt(<<RSeq(<<ROpt(RLit(".")), RLit("B"), ROpt(RLit(".")),
           RLit("A")>>), RLit("BA"), RSeq(<<RLit("aster of Business Admin"),
           RStar(RSet({"i", "s", "t", "r", "a", "o", "n"}))>>)>>), RWordB>>),
       \* \b(?:M\.?C\.?A|MCA|Master of Computer Applications?)\b
       RSeq(<<RWordB, RLit("M"), RAlt(<<RSeq(<<ROpt(RLit(".")), RLit("C"), ROpt(RLit(".")),
           RLit("A")>>), RLit("CA"), RSeq(<<RLit("aster of Computer Application"),
           ROpt(RLit("s"))>>)>>), RWordB>>),
       \* \b(?:B\.?C\.?A|BCA|Bachelor of Computer Applications?)\b
       RSeq(<<RWordB, RLit("B"), RAlt(<<RSeq(<<ROpt(RLit(".")), RLit("C"), ROpt(RLit(".")),
           RLit("A")>>), RLit("CA"), RSeq(<<RLit("achelor of Computer Application"),
           ROpt(RLit("s"))>>)>>), RWordB>>),
       \* \b(?:LLB?|Bachelor of Law[s]*)\b
       RSeq(<<RWordB, RAlt(<<RSeq(<<RLit("LL"), ROpt(RLit("B"))>>),
           RSeq(<<RLit("Bachelor of Law"), RStar(RLit("s"))>>)>>), RWordB>>),
       \* \b(?:LLM|Master of Law[s]*)\b
       RSeq(<<RWordB, RAlt(<<RLit("LLM"), RSeq(<<RLit("Master of Law"),
           RStar(RLit("s"))>>)>>), RWordB>>),
       \* \b(?:MBBS|Bachelor of Medicine[,\s]+ Bachelor of Surgery)\b
       RSeq(<<RWordB, RAlt(<<RLit("MBBS"), RSeq(<<RLit("Bachelor of Medicine"),
           RPlus(RSet(Spaces \cup {","})), RLit(" Bachelor of Surgery")>>)>>), RWordB>>),
       \* \b(?:M\.?D|MD)\b
       RSeq(<<RWordB, RLit("M"), RAlt(<<RSeq(<<ROpt(RLit(".")), RLit("D")>>), RLit("D")>>),
           RWordB>>),
       \* \b(?:Ph\.?D|PhD|Doctor of Philosophy)\b
       RSeq(<<RWordB, RAlt(<<RSeq(<<RLit("Ph"), ROpt(RLit(".")), RLit("D")>>), RLit("PhD"),
           RLit("Doctor of Philosophy")>>), RWordB>>),
       \* \b(?:D\.?M\.?D|DMD)\b
       RSeq(<<RWordB, RLit("D"), RAlt(<<RSeq(<<ROpt(RLit(".")), RLit("M"), ROpt(RLit(".")),
           RLit("D")>>), RLit("MD")>>), RWordB>>),
       \* \b(?:B\.?D\.?S|BDS|Bachelor of Dental Surgery)\b
       RSeq(<<RWordB, RLit("B"), RAlt(<<RSeq(<<ROpt(RLit(".")), RLit("D"), ROpt(RLit(".")),
           RLit("S")>>), RLit("DS"), RLit("achelor of Dental Surgery")>>), RWordB>>),
       \* \b(?:A\.?D\.?C|ADC|Auxiliary Dental Surgeon)\b
       RSeq(<<RWordB, RLit("A"), RAlt(<<RSeq(<<ROpt(RLit(".")), RLit("D"), ROpt(RLit(".")),
           RLit("C")>>), RLit("DC"), RLit("uxiliary Dental Surgeon")>>), RWordB>>),
       \* \b(?:Diploma)\b
       RSeq(<<RWordB, RLit("Diploma"), RWordB>>),
       \* \b(?:HSSC?|High School|10\+2|12th|12 pass)\b
       RSeq(<<RWordB, RAlt(<<RSeq(<<RLit("HSS"), ROpt(RLit("C"))>>), RLit("High School"),
           RLit("10+2"), RLit("12th"), RLit("12 pass")>>), RWordB>>),
       \* \b(?:SSC|10th|10 pass)\b
       RSeq(<<RWordB, RWords(<<"SSC", "10th", "10 pass">>), RWordB>>) >>

field_markers ==
    << \* (?:Engineering|Engineer)
       RSeq(<<RLit("Engineer"), RAlt(<<RLit("ing"), RSeq(<<>>)>>)>>),
       \* (?:Commerce|Commercial)
       RSeq(<<RLit("Commerc"), RWords(<<"e", "ial">>)>>),
       \* (?:Science)
       RLit("Science"),
       \* (?:Arts?|Humanities)
       RAlt(<<RSeq(<<RLit("Art"), ROpt(RLit("s"))>>), RLit("Humanities")>>),
       \* (?:Medicine|Medical)
       RSeq(<<RLit("Medic"), RWords(<<"ine", "al">>)>>),
       \* (?:Law|Legal)
       RSeq(<<RLit("L"), RWords(<<"aw", "egal">>)>>),
       \* (?:Business|Management)
       RWords(<<"Business", "Management">>),
       \* (?:Information Technology|IT|Computer)
       RWords(<<"Information Technology", "IT", "Computer">>),
       \* (?:Finance|Accounting)
       RWords(<<"Finance", "Accounting">>),
       \* (?:Marketing)
       RLit("Marketing"),
       \* (?:Human Resources?|HR)
       RSeq(<<RLit("H"), RAlt(<<RSeq(<<RLit("uman Resource"), ROpt(RLit("s"))>>),
           RLit("R")>>)>>),
       \* (?:Education|Teaching)
       RWords(<<"Education", "Teaching">>) >>

jaati_markers ==
    << \* (?:Pareek|Joshi|Gupta|Sharma|Verma|Singh|Patel|Reddy|Nair|Iyer|Iyengar)
       RWords(<<"Pareek", "Joshi", "Gupta", "Sharma", "Verma", "Singh", "Patel", "Reddy",
           "Nair", "Iyer", "Iyengar">>),
       \* (?:Brahmin|Brahman|Bania|Baniya|Kshatriya|Shudra|Vaishya)
       RWords(<<"Brahmin", "Brahman", "Bania", "Baniya", "Kshatriya", "Shudra",
           "Vaishya">>),
       \* (?:Rajput|Maratha|Ahir|Jat|Yaadav|Yadav)
       RWords(<<"Rajput", "Maratha", "Ahir", "Jat", "Yaadav", "Yadav">>) >>

gotra_markers ==
    << \* Upmanyu|Bharadwaj|Kashyap|Kaushal|Vashist|Atri|Bhrigu|Angirasa
       RWords(<<"Upmanyu", "Bharadwaj", "Kashyap", "Kaushal", "Vashist", "Atri", "Bhrigu",
           "Angirasa">>),
       \* Kachhyap|Goutam|Maudgalya|Punarvasu|Gautam|Agastya|Rishi
       RWords(<<"Kachhyap", "Goutam", "Maudgalya", "Punarvasu", "Gautam", "Agastya",
           "Rishi">>) >>

sakha_markers ==
    << \* (?:Rigveda|Yajurveda|Samaveda|Atharvaveda)
       RWords(<<"Rigveda", "Yajurveda", "Samaveda", "Atharvaveda">>),
       \* (?:Shukla|Krishna)
       RWords(<<"Shukla", "Krishna">>) >>

\* institution_pattern =
\*   (?:from|at|studied at)\s+([A-Z][A-Za-z\s&\.,-]*(?:University|College|Institute|School|Academy))
institution_prefix == RSeq(<<RWords(<<"from", "at", "studied at">>), RPlus(RSet(Spaces))>>)

institution_pattern ==
    RSeq(<<institution_prefix, RSet(CharSet(UpperChars)),
           RStar(RSet(CharSet(UpperChars) \cup CharSet(LowerChars) \cup Spaces
                      \cup {"&", ".", ",", "-"})),
           RWords(<<"University", "College", "Institute", "School", "Academy">>)>>)

\* re.finditer: the non-overlapping matches as <<start, end>> spans
RECURSIVE FindSpans(_, _, _, _)
FindSpans(r, s, i, ic) ==
    LET Rest(m) ==
            IF m = <<>> THEN <<>>
            ELSE <<m>> \o FindSpans(r, s, IF m[2] > m[1] THEN m[2] ELSE m[2] + 1, ic)
    IN  Rest(SearchFrom(r, s, i, ic))

\* match.group(0).strip() for every match of every pattern of a list, in
\* pattern order and then text order
RECURSIVE AllMatches(_, _)
AllMatches(patterns, text) ==
    LET Stripped(found) == ListOf([i \in DOMAIN found |-> strip(found[i])])
    IN  IF patterns = <<>> THEN <<>>
        ELSE Stripped(re_findall(Head(patterns), text, TRUE)) \o AllMatches(Tail(patterns), text)

\* match.group(1).strip() of the institution matches
Institutions(text) ==
    LET Of(spans) ==
            ListOf([k \in DOMAIN spans |->
                      strip(SubSeq(text, Head(Match(institution_prefix, text, spans[k][1], TRUE)),
                                   spans[k][2] - 1))])
    IN  Of(FindSpans(institution_pattern, text, 1, TRUE))

extract_education_from_text(text) ==
    IF ~Truthy(text) THEN <<>>
    ELSE SortedSet(Range(AllMatches(degree_markers, text))
                   \cup Range(AllMatches(field_markers, text))
                   \cup { x \in Range(Institutions(text)) : x # "" })

\* _find_best_caste_match
_find_best_caste_match(value, df, column) ==
    LET Pick(vals, best) == IF best = {} THEN None ELSE strip(vals[SetMin(best)])
        Best(vals, scores) ==
            Pick(vals, { k \in DOMAIN vals :
                           scores[k] >= 75 /\ \A j \in DOMAIN vals :
                                                 scores[j] < scores[k]
                                                 \/ (scores[j] = scores[k] /\ j >= k) })
        Among(vals) ==
            Best(vals, ListOf([k \in DOMAIN vals |->
                                 fw_token_set_ratio(lower(value), lower(strip(vals[k])))]))
        Of(c) == IF c = 0 THEN None ELSE Among(astype_str(dropna(Column(df, c))))
    IN  Of(ColIndex(df, column))

\* lines 186-199: the loop runs over the list it appends to (result.copy()
\* is shallow), k is the position reached
RECURSIVE Refine(_, _, _, _)
Refine(items, k, df, column) ==
    LET Next(best_match) ==
            IF Truthy(best_match) /\ best_match \notin Range(items)
            THEN Refine(Append(items, best_match), k + 1, df, column)
            ELSE Refine(items, k + 1, df, column)
    IN  IF k > Len(items) THEN items
        ELSE Next(_find_best_caste_match(items[k], df, column))

extract_caste_components_from_text(text, m, fs) ==
    LET Of(result, L) ==
            IF L.status # "ok" THEN [val |-> result, m |-> L.m]
            ELSE [val |-> [jaati |-> Refine(result.jaati, 1, L.table, "Jaati"),
                           gotra |-> Refine(result.gotra, 1, L.table, "Gotra"),
                           sakha |-> Refine(result.sakha, 1, L.table, "Sakha")],
                  m |-> L.m]
    IN  IF ~Truthy(text) THEN [val |-> [jaati |-> <<>>, gotra |-> <<>>, sakha |-> <<>>], m |-> m]
        ELSE Of([jaati |-> unique(AllMatches(jaati_markers, text)),
                 gotra |-> unique(AllMatches(gotra_markers, text)),
                 sakha |-> unique(AllMatches(sakha_markers, text))],
                load_master(m, fs, "caste"))

\* extract_all_structured_info: a key is present only for a non-empty list
extract_all_structured_info(text, m, fs) ==
    LET NonEmptyOf(all, mm) == [val |-> [k \in { k \in DOMAIN all : all[k] # <<>> } |-> all[k]], m |-> mm]
        Of(education, C) ==
            NonEmptyOf([education |-> education, jaati |-> C.val.jaati, gotra |-> C.val.gotra,
                        sakha |-> C.val.sakha], C.m)
    IN  Of(extract_education_from_text(text), extract_caste_components_from_text(text, m, fs))

enriched_fields == <<"education", "jaati", "gotra", "sakha">>

\* the four fills write biodata_copy[field] whether or not the key exists
enrich_profile_from_unstructured_text(biodata, unstructured_text, m, fs) ==
    LET Filled(E, filled) ==
            [val |-> [k \in (DOMAIN biodata) \cup filled |->
                         IF k \in filled THEN E.val[k][1] ELSE biodata[k]],
             m |-> E.m]
        Of(E) == Filled(E, { f \in DOMAIN E.val : ~Truthy(get(biodata, f)) })
    IN  Of(extract_all_structured_info(unstructured_text, m, fs))

\* ------------------------------------------------------------------------
\* field_validators.py: FieldValidator
\* ------------------------------------------------------------------------

\* ^[a-zA-Z\s\-'&.]{2,50}$   (state, city, country, district, village, tahsil)
Pattern_state ==
    RSeq(<<RBegin,
        RRep(RSet(CharSet(LowerChars) \cup CharSet(UpperChars) \cup Spaces \cup {"-", "'",
        "&", "."}), 2, 50), REnd>>)

\* ^\d{5,10}$   (zip_code)
Pattern_zip_code ==
    RSeq(<<RBegin, RRep(RSet(Digits), 5, 10), REnd>>)

\* ^[A-Z.]+[\w\s\-().,]*$   (education)
Pattern_education ==
    RSeq(<<RBegin, RPlus(RSet(CharSet(UpperChars) \cup {"."})),
        RStar(RSet(WordChars \cup Spaces \cup {"-", "(", ")", ".", ","})), REnd>>)

\* ^[a-zA-Z\s\-'&.()]{2,50}$   (specialization)
Pattern_specialization ==
    RSeq(<<RBegin,
        RRep(RSet(CharSet(LowerChars) \cup CharSet(UpperChars) \cup Spaces \cup {"-", "'",
        "&", ".", "(", ")"}), 2, 50), REnd>>)

\* ^[a-zA-Z\s\-']{2,30}$   (first_name, last_name, caste, jaati, gotra, sakha, religion)
Pattern_first_name ==
    RSeq(<<RBegin,
        RRep(RSet(CharSet(LowerChars) \cup CharSet(UpperChars) \cup Spaces \cup {"-",
        "'"}), 2, 30), REnd>>)

\* ^[a-zA-Z\s\-']{4,60}$   (full_name)
Pattern_full_name ==
    RSeq(<<RBegin,
        RRep(RSet(CharSet(LowerChars) \cup CharSet(UpperChars) \cup Spaces \cup {"-",
        "'"}), 4, 60), REnd>>)

\* ^[a-zA-Z\s\-']{2,50}$   (occupation)
Pattern_occupation ==
    RSeq(<<RBegin,
        RRep(RSet(CharSet(LowerChars) \cup CharSet(UpperChars) \cup Spaces \cup {"-",
        "'"}), 2, 50), REnd>>)

\* ^\+91\s?\d{10}$   (mobile_no)
Pattern_mobile_no ==
    RSeq(<<RBegin, RLit("+91"), ROpt(RSet(Spaces)), RRep(RSet(Digits), 10, 10), REnd>>)

\* FIELD_CONSTRAINTS: the pattern of each field that has one
FieldPattern(field) ==
    CASE field = "state" -> Pattern_state
      [] field = "city" -> Pattern_state
      [] field = "country" -> Pattern_state
      [] field = "district" -> Pattern_state
      [] field = "village" -> Pattern_state
      [] field = "tahsil" -> Pattern_state
      [] field = "zip_code" -> Pattern_zip_code
      [] field = "education" -> Pattern_education
      [] field = "specialization" -> Pattern_specialization
      [] field = "first_name" -> Pattern_first_name
      [] field = "last_name" -> Pattern_first_name
      [] field = "full_name" -> Pattern_full_name
      [] field = "occupation" -> Pattern_occupation
      [] field = "caste" -> Pattern_first_name
      [] field = "jaati" -> Pattern_first_name
      [] field = "gotra" -> Pattern_first_name
      [] field = "sakha" -> Pattern_first_name
      [] field = "religion" -> Pattern_first_name
      [] field = "mobile_no" -> Pattern_mobile_no

\* the fields whose constraint has "pattern": None
NoPatternFields == {"address", "marital_status", "manglik", "phone_no"}

CONSTRAINED_FIELDS ==
    { "state", "city", "country", "district", "village", "tahsil", "zip_code", "address",
       "education", "specialization", "first_name", "last_name", "full_name",
       "occupation", "caste", "jaati", "gotra", "sakha", "religion", "marital_status",
       "manglik", "mobile_no", "phone_no" }

allowed_values_marital_status ==
    << "Single", "Married", "Divorced", "Widowed", "Separated", "Un-Married",
       "Awaiting Divorce" >>

allowed_values_manglik ==
    << "Yes", "No", "Don't Know" >>

\* SUSPICIOUS_PATTERNS["education"] as <<pattern, ignore-case flag>> pairs
suspicious_education ==
    << \* (?i)\b(university|college|school|institute|department|faculty|academy)\b
       <<RSeq(<<RWordB, RWords(<<"university", "college", "school", "institute",
           "department", "faculty", "academy">>), RWordB>>), TRUE>> >>

\* SUSPICIOUS_PATTERNS["state"] as <<pattern, ignore-case flag>> pairs
suspicious_state ==
    << \* (?i)(road|street|area|colony|sector|plot|house|apartment|bldg|mohalla|lane)
       <<RWords(<<"road", "street", "area", "colony", "sector", "plot", "house",
           "apartment", "bldg", "mohalla", "lane">>), TRUE>>,
       \* (?i)(university|college|school|institute|hospital|office|department|faculty|academy)
       <<RWords(<<"university", "college", "school", "institute", "hospital", "office",
           "department", "faculty", "academy">>), TRUE>>,
       \* (?i)(bandar|town|city|municipal)
       <<RWords(<<"bandar", "town", "city", "municipal">>), TRUE>>,
       \* ,|;
       <<RSet({",", ";"}), FALSE>> >>

\* SUSPICIOUS_PATTERNS["city"] as <<pattern, ignore-case flag>> pairs
suspicious_city ==
    << \* (?i)\b(degree|diploma|certified|b\.tech|mba|m\.sc|b\.com|b\.a|m\.a|university|college)\b
       <<RSeq(<<RWordB, RWords(<<"degree", "diploma", "certified", "b.tech", "mba", "m.sc",
           "b.com", "b.a", "m.a", "university", "college">>), RWordB>>), TRUE>>,
       \* ^[A-Z][a-z]*\s[A-Z][a-z]*$
       <<RSeq(<<RBegin, RSet(CharSet(UpperChars)), RStar(RSet(CharSet(LowerChars))),
           RSet(Spaces), RSet(CharSet(UpperChars)), RStar(RSet(CharSet(LowerChars))),
           REnd>>), FALSE>> >>

\* SUSPICIOUS_PATTERNS["zip_code"] as <<pattern, ignore-case flag>> pairs
suspicious_zip_code ==
    << \* [^0-9]
       <<RNotSet(Digits), FALSE>> >>

AllowedValues(field) ==
    CASE field = "marital_status" -> allowed_values_marital_status
      [] field = "manglik" -> allowed_values_manglik
      [] OTHER -> <<>>

SUSPICIOUS_PATTERNS(field) ==
    CASE field = "education" -> suspicious_education
      [] field = "state" -> suspicious_state
      [] field = "city" -> suspicious_city
      [] field = "zip_code" -> suspicious_zip_code
      [] OTHER -> <<>>

\* validate_field(field_name, value)[0]
validate_field(field_name, value) ==
    LET Of(value_str, allowed_values, suspicious) ==
            /\ allowed_values # <<>>
                   => \E k \in DOMAIN allowed_values : lower(allowed_values[k]) = lower(value_str)
            /\ field_name \notin NoPatternFields
                   => re_match(FieldPattern(field_name), value_str, FALSE)
            /\ \A k \in DOMAIN suspicious : ~re_search(suspicious[k][1], value_str, suspicious[k][2])
    IN  IF value = None \/ value = "" \/ strip(str(value)) = "" THEN TRUE
        ELSE IF field_name \notin CONSTRAINED_FIELDS THEN TRUE
        ELSE Of(strip(str(value)), AllowedValues(field_name), SUSPICIOUS_PATTERNS(field_name))

\* validate_profile(profile)[1]: the fields with an error
validate_profile(profile) ==
    { f \in DOMAIN profile : profile[f] # None /\ profile[f] # "" /\ ~validate_field(f, profile[f]) }

\* sanitize_profile deleting the failing fields
sanitize_profile_delete(profile) ==
    LET Of(errors) == [f \in (DOMAIN profile) \ errors |-> profile[f]]
    IN  Of(validate_profile(profile))

\* sanitize_profile(profile): a copy with the failing fields set to None
sanitize_profile(profile) ==
    LET Of(errors) == [f \in DOMAIN profile |-> IF f \in errors THEN None ELSE profile[f]]
    IN  Of(validate_profile(profile))

\* ------------------------------------------------------------------------
\* helpers.py: summarize_about_yourself and normalize_country_state
\* ------------------------------------------------------------------------

\* summarize_about_yourself: the separator pattern \s*[\*\-_]{2,}\s*
separator_pattern ==
    RSeq(<<RStar(RSet(Spaces)), RRep(RSet({"*", "-", "_"}), 2, Unbounded), RStar(RSet(Spaces))>>)

\* the pieces of s between the matches of a pattern (re.sub with "\n"
\* followed by split("\n"))
Pieces(r, s) ==
    LET Of(spans) ==
            ListOf([k \in 1..(Len(spans) + 1) |->
                      SubSeq(s, IF k = 1 THEN 1 ELSE spans[k - 1][2],
                                IF k > Len(spans) THEN Len(s) ELSE spans[k][1] - 1)])
    IN  Of(FindSpans(r, s, 1, FALSE))

\* the length limit of line 343
SummaryLimit == 1000

summarize_about_yourself(text) ==
    LET Cut(head, cut) ==
            (IF cut = {} THEN head ELSE SubSeq(head, 1, SetMax(cut) - 1)) \o "\n[... truncated]"
        Truncated(head) == Cut(head, { i \in 1..Len(head) : CharAt(head, i) = "\n" })
        Summary(summary) ==
            IF Len(summary) > SummaryLimit THEN Truncated(SubSeq(summary, 1, SummaryLimit))
            ELSE summary
        Lines(lines) == IF lines = <<>> THEN None ELSE Summary(join("\n", lines))
        Stripped(pieces) == ListOf([k \in DOMAIN pieces |-> strip(pieces[k])])
        Of(s) ==
            IF ~Truthy(s) THEN None
            ELSE Lines(SelectSeq(Stripped(Pieces(separator_pattern, s)), NonEmpty))
    IN  IF ~Truthy(text) THEN None ELSE Of(clean_str(text))

\* normalize_country_state; loaded is FALSE when country_state_df is None
normalize_country_state(raw_country, raw_state, loaded, df, threshold, rf) ==
    LET StatesOf(rows) == unique(astype_str(dropna(ListOf([i \in DOMAIN rows |-> rows[i][2]]))))
        InCountry(states_for_country) ==
            IF states_for_country # <<>>
            THEN normalize_via_master(raw_state, states_for_country, threshold, rf)
            ELSE None
        State(country, two) ==
            IF Truthy(country) /\ two
            THEN InCountry(StatesOf(SelectSeq(df.rows, LAMBDA r : CellStr(r[1]) = country)))
            ELSE IF two
            THEN normalize_via_master(raw_state, unique(astype_str(dropna(Column(df, 2)))),
                                      threshold, rf)
            ELSE None
        Of(country) ==
            <<IF ~Truthy(country) /\ ~Truthy(clean_str(raw_country)) THEN "India" ELSE country,
              State(country, Len(df.cols) >= 2)>>
    IN  IF ~loaded \/ IsEmptyFrame(df) THEN <<None, None>>
        ELSE Of(normalize_via_master(raw_country, unique(astype_str(dropna(Column(df, 1)))),
                                     threshold, rf))

\* ------------------------------------------------------------------------
\* normalisation.py: normalize_profile, stage by stage.  A stage takes the
\* raw profile and the output built so far and gives the output after it;
\* a stage that loads masters also gives the module state after it.
\* ------------------------------------------------------------------------

\* the fallback schema of _load_schema
DefaultSchema ==
    <<"full_name", "first_name", "last_name", "gender", "date_of_birth", "age", "birth_time",
      "birth_place", "height", "marital_status", "religion", "caste", "jaati", "gotra",
      "sakha", "manglik", "education", "specialization", "occupation", "annual_income",
      "address", "village", "tahsil", "district", "native_state", "state", "city", "country",
      "zip_code", "email_id", "mobile_no", "phone_no", "about_yourself_summary">>

\* _load_schema with masters.load_biodata_output_schema: the header of the
\* schema file, the fallback list when the file is not found, the exception
\* of read_excel otherwise (only FileNotFoundError is caught)
_load_schema(fs) ==
    IF _find_file(fs, "biodata_output") = None THEN [status |-> "ok", columns |-> DefaultSchema]
    ELSE IF fs["biodata_output"] = "unreadable" THEN [status |-> "ReadError", columns |-> <<>>]
    ELSE [status |-> "ok", columns |-> Storage("biodata_output").cols]

\* _get(*keys)
_get(raw, keys) ==
    LET Of(k) == IF k = 0 THEN None ELSE raw[keys[k]]
    IN  Of(FirstWhere(keys, LAMBDA x : x \in DOMAIN raw /\ raw[x] # None))

\* ''.join(word.capitalize() for word in k.split('_'))
pascal(k) ==
    LET Of(words) == join("", ListOf([i \in DOMAIN words |-> capitalize(words[i])]))
    IN  Of(splitOn(k, "_"))

\* the keys _get_pascal tries, in order: each key and then its PascalCase
WithPascal(keys) ==
    ListOf([i \in 1..(2 * Len(keys)) |->
              IF i % 2 = 1 THEN keys[(i + 1) \div 2] ELSE pascal(keys[i \div 2])])

_get_pascal(raw, keys) == _get(raw, WithPascal(keys))

\* `if key in out: out[key] = value`
Set(out, key, value) == IF key \in DOMAIN out THEN [out EXCEPT ![key] = value] ELSE out

\* lines 131-152
names_stage(raw, out) ==
    LET Parts(first_name_raw, last_name_raw) ==
            (IF Truthy(first_name_raw) THEN <<strip(str(first_name_raw))>> ELSE <<>>)
            \o (IF Truthy(last_name_raw) THEN <<strip(str(last_name_raw))>> ELSE <<>>)
        FullNameRaw(given, parts) ==
            IF Truthy(given) THEN given
            ELSE IF parts # <<>> THEN join(" ", parts)
            ELSE given
        Named(full_name, name) ==
            Set(Set(Set(out, "full_name", full_name), "first_name", name[1]), "last_name", name[2])
        Of(full_name) == Named(full_name, parse_name(full_name))
    IN  Of(clean_str(FullNameRaw(_get_pascal(raw, <<"full_name", "name", "FullName", "fullname">>),
                                 Parts(_get_pascal(raw, <<"first_name", "FirstName">>),
                                       _get_pascal(raw, <<"last_name", "LastName">>)))))

\* the parsers of dates, ages, birth times and heights are outside the
\* model: the raw profiles carry none of these fields, and a value for one
\* of them has no image here
Unmodelled == CHOOSE x \in {} : TRUE

normalize_date(raw) == IF ~Truthy(raw) THEN None ELSE Unmodelled
normalize_age(raw) == IF raw = None THEN None ELSE Unmodelled

\* lines 155-173
dob_age_stage(raw, out) ==
    LET Of(dob_iso, age_int) ==
            Set(Set(out, "age", IF age_int = None /\ Truthy(dob_iso) THEN Unmodelled ELSE age_int),
                "date_of_birth", dob_iso)
    IN  Of(normalize_date(_get_pascal(raw, <<"date_of_birth", "dob", "DOB", "DateOfBirth">>)),
           normalize_age(_get_pascal(raw, <<"age", "Age">>)))

\* lines 176-185
birth_stage(raw, out) ==
    LET birth_time_raw == clean_str(_get_pascal(raw, <<"birth_time", "birthtime", "BirthTime">>))
    IN  Set(Set(out, "birth_time", IF Truthy(birth_time_raw) THEN Unmodelled ELSE None),
            "birth_place", clean_str(_get_pascal(raw, <<"birth_place", "birthplace", "BirthPlace">>)))

\* lines 188-202 without the standardisation of lines 192-195: a given value
\* is kept as it is
gender_stage_as_given(raw, out) ==
    LET Of(gender_val) ==
            Set(out, "gender", IF ~Truthy(gender_val) THEN auto_detect_gender(raw) ELSE gender_val)
    IN  Of(clean_str(_get_pascal(raw, <<"gender", "sex", "Gender">>)))

\* lines 188-202
gender_stage(raw, out) ==
    LET Canonical(gender_val, gender_lower) ==
            IF gender_lower \in {"m", "male", "boy"} THEN "Male"
            ELSE IF gender_lower \in {"f", "female", "girl", "woman"} THEN "Female"
            ELSE gender_val
        Of(gender_val) ==
            Set(out, "gender",
                IF ~Truthy(gender_val) THEN auto_detect_gender(raw)
                ELSE Canonical(gender_val, strip(lower(gender_val))))
    IN  Of(clean_str(_get_pascal(raw, <<"gender", "sex", "Gender">>)))

marital_keys == <<"marital_status", "maritalstatus", "MaritialStatus">>

\* lines 205-215
marital_stage(raw, out, m, fs, threshold, rf) ==
    LET Looked(marital_raw, L) ==
            [out |-> Set(out, "marital_status",
                         IF Truthy(L.val) THEN L.val
                         ELSE normalize_marital_status(marital_raw, threshold, rf)),
             m |-> L.m]
        Of(marital_raw) ==
            IF ~Truthy(marital_raw) THEN [out |-> Set(out, "marital_status", None), m |-> m]
            ELSE Looked(marital_raw, lookup_marital_status(marital_raw, m, fs, rf))
    IN  IF "marital_status" \notin DOMAIN out THEN [out |-> out, m |-> m]
        ELSE Of(clean_str(_get_pascal(raw, marital_keys)))

\* the list `allowed` of lines 219-227
allowed ==
    <<"Awaiting Divorce", "Committed", "Divorced", "Married", "Un-Married", "Widow", "Widower">>

\* lines 229-253 with line 253 keeping the value when nothing matched
enforce_marital_passthrough(ms_raw_val, threshold) ==
    LET Fuzzy(mv, cand) ==
            IF cand # <<>> /\ ScoreGE(Score(cand[2], 1), threshold) THEN cand[1] ELSE mv
        Part(mv, part) ==
            IF part # 0 THEN allowed[part] ELSE Fuzzy(mv, fuzzy_extractOne(mv, allowed))
        Exact(mv, exact) ==
            IF exact # 0 THEN allowed[exact]
            ELSE Part(mv, FirstWhere(allowed, LAMBDA a : Contains(lower(mv), lower(a))
                                                         \/ Contains(lower(a), lower(mv))))
        Of(mv) == Exact(mv, FirstWhere(allowed, LAMBDA a : lower(a) = lower(mv)))
    IN  IF ~Truthy(ms_raw_val) THEN None ELSE Of(strip(str(ms_raw_val)))

\* lines 229-253: the member of `allowed` a value is forced to, or None
enforce_marital(ms_raw_val, threshold) ==
    LET Fuzzy(cand) ==
            IF cand # <<>> /\ ScoreGE(Score(cand[2], 1), threshold) THEN cand[1] ELSE None
        Part(mv, part) ==
            IF part # 0 THEN allowed[part] ELSE Fuzzy(fuzzy_extractOne(mv, allowed))
        Exact(mv, exact) ==
            IF exact # 0 THEN allowed[exact]
            ELSE Part(mv, FirstWhere(allowed, LAMBDA a : Contains(lower(mv), lower(a))
                                                         \/ Contains(lower(a), lower(mv))))
        Of(mv) == Exact(mv, FirstWhere(allowed, LAMBDA a : lower(a) = lower(mv)))
    IN  IF ~Truthy(ms_raw_val) THEN None ELSE Of(strip(str(ms_raw_val)))

\* lines 218-253
marital_enforce_stage(raw, out, threshold) ==
    Set(out, "marital_status",
        enforce_marital(Or(get(out, "marital_status"), clean_str(_get_pascal(raw, marital_keys))),
                        threshold))

\* lines 256-266
manglik_stage(raw, out, m, fs, threshold, rf) ==
    LET Looked(manglik_val, L) ==
            [out |-> Set(out, "manglik",
                         IF Truthy(L.val) THEN L.val
                         ELSE normalize_manglik(manglik_val, threshold, rf)),
             m |-> L.m]
        Of(manglik_val) ==
            IF ~Truthy(manglik_val) THEN [out |-> Set(out, "manglik", None), m |-> m]
            ELSE Looked(manglik_val, lookup_manglik(manglik_val, m, fs, rf))
    IN  IF "manglik" \notin DOMAIN out THEN [out |-> out, m |-> m]
        ELSE Of(clean_str(_get_pascal(raw, <<"manglik", "Manglik">>)))

\* lines 269-280: the value manglik is forced to
enforce_manglik(m_val) ==
    LET Of(mv) ==
            IF mv \in {"yes", "y", "true", "t", "manglik"} \/ Contains(mv, "yes") THEN "Yes"
            ELSE IF mv \in {"no", "n", "false", "f", "non-manglik", "non manglik"}
                    \/ Contains(mv, "no") \/ Contains(mv, "non") THEN "No"
            ELSE "Don't Know"
    IN  IF ~Truthy(m_val) THEN "Don't Know" ELSE Of(lower(str(m_val)))

\* lines 268-280
manglik_enforce_stage(raw, out) ==
    Set(out, "manglik",
        enforce_manglik(Or(get(out, "manglik"), clean_str(_get_pascal(raw, <<"manglik", "Manglik">>)))))

\* lines 283-284
religion_stage(raw, out) ==
    Set(out, "religion", clean_str(_get_pascal(raw, <<"religion", "Religion">>)))

caste_lookup_fields ==
    <<"gotra", "sakha", "jaati", "caste", "community", "Gotra", "Sakha", "Jaati", "Caste">>

\* lines 292-296: the first truthy value among the fields, else the value
\* the last field gave
caste_lookup_value(raw) ==
    LET Pick(vals, k) == IF k = 0 THEN vals[Len(vals)] ELSE vals[k]
        Of(vals) == Pick(vals, FirstWhere(vals, Truthy))
    IN  Of(ListOf([i \in DOMAIN caste_lookup_fields |->
                     _get_pascal(raw, <<caste_lookup_fields[i]>>)]))

\* the fallback of lines 312-350 for one output field: the master column is
\* fetched with get_master_values (an exception leaves the list empty) and
\* the raw value matched against it
caste_fallback_field(raw, o, field, keys, column, fs, threshold, rf) ==
    LET Of(G) ==
            [out |-> Set(o.out, field,
                         normalize_via_master(_get_pascal(raw, keys), G.values, threshold, rf)),
             m |-> G.m]
    IN  IF field \notin DOMAIN o.out THEN o
        ELSE Of(get_master_values(o.m, fs, "caste", column))

\* the four blocks of lines 312-350, in order: <<output field, raw keys,
\* master column>>
caste_fallback_blocks ==
    << <<"jaati", <<"jaati", "caste", "community">>, "Jaati">>,
       <<"caste", <<"caste", "Caste">>, "Caste">>,
       <<"gotra", <<"gotra", "Gotra">>, "Gotra">>,
       <<"sakha", <<"sakha", "Sakha">>, "Sakha">> >>

RECURSIVE caste_fallback(_, _, _, _, _, _)
caste_fallback(raw, o, k, fs, threshold, rf) ==
    IF k > Len(caste_fallback_blocks) THEN o
    ELSE caste_fallback(raw,
                        caste_fallback_field(raw, o, caste_fallback_blocks[k][1],
                                             caste_fallback_blocks[k][2],
                                             caste_fallback_blocks[k][3], fs, threshold, rf),
                        k + 1, fs, threshold, rf)

\* lines 292-350
caste_stage(raw, out, m, fs, threshold, rf) ==
    LET fill(caste_data, o, f) == Set(o, f, Or(caste_data[f], o[f]))
        Found(caste_data) ==
            fill(caste_data, fill(caste_data, fill(caste_data, fill(caste_data, out, "jaati"),
                                                   "caste"), "gotra"), "sakha")
        Looked(L) ==
            IF DOMAIN L.val # {} THEN [out |-> Found(L.val), m |-> L.m]
            ELSE caste_fallback(raw, [out |-> out, m |-> L.m], 1, fs, threshold, rf)
        Of(value) ==
            IF ~Truthy(value) THEN [out |-> out, m |-> m]
            ELSE Looked(lookup_caste_by_any_field(value, m, fs, rf))
    IN  Of(caste_lookup_value(raw))

\* lines 356-375
education_stage(raw, out, m, fs, rf) ==
    LET WithSpec(e, P) ==
            IF Truthy(P.specialization) THEN Set(e, "specialization", P.specialization) ELSE e
        Parsed(qual_raw, P) ==
            IF "education" \notin DOMAIN out THEN out
            ELSE IF ~Truthy(qual_raw) THEN Set(out, "education", None)
            ELSE WithSpec(Set(out, "education", P.education), P)
        Specialized(o, spec_raw) ==
            IF "specialization" \in DOMAIN o /\ ~Truthy(o["specialization"])
            THEN Set(o, "specialization", IF Truthy(spec_raw) THEN spec_raw ELSE None)
            ELSE o
        Of(qual_raw, P) ==
            [out |-> Specialized(Parsed(qual_raw, P),
                                 clean_str(_get_pascal(raw, <<"specialization", "field_of_study",
                                                              "Specialization">>))),
             m |-> IF "education" \in DOMAIN out /\ Truthy(qual_raw) THEN P.m ELSE m]
        Raw(qual_raw) == Of(qual_raw, parse_education_specialization(qual_raw, m, fs, rf))
    IN  Raw(_get_pascal(raw, <<"education", "qualification", "degree", "Education">>))

\* lines 378-388
occupation_stage(raw, out, m, fs, rf) ==
    LET Looked(occ_raw, L) ==
            IF "occupation" \notin DOMAIN out THEN out
            ELSE Set(out, "occupation", IF Truthy(occ_raw) THEN L.val ELSE None)
        Of(occ_raw, L) ==
            [out |-> Set(Looked(occ_raw, L), "annual_income",
                         clean_str(_get_pascal(raw, <<"annual_income", "income", "AnnualIncome">>))),
             m |-> IF "occupation" \in DOMAIN out /\ Truthy(occ_raw) THEN L.m ELSE m]
        Raw(occ_raw) == Of(occ_raw, lookup_occupation(occ_raw, m, fs, rf))
    IN  Raw(_get_pascal(raw, <<"occupation", "job", "profession", "Occupation">>))

\* address_raw, current_city, current_state: locals of lines 391-415 that
\* the later stages read
address_raw(raw) == clean_str(_get(raw, <<"address">>))

current_city(raw) == clean_str(_get_pascal(raw, <<"city", "City">>))

indicators ==
    <<"university", "college", "institute", "department", "faculty", "school", "hospital">>

_is_institution_like(val) ==
    LET Of(v) ==
            \/ \E k \in DOMAIN indicators : Contains(v, indicators[k])
            \/ Contains(v, ",") \/ Contains(v, ";")
    IN  IF ~Truthy(val) THEN FALSE ELSE Of(lower(str(val)))

current_state(raw) ==
    LET Of(given) == IF _is_institution_like(given) THEN None ELSE given
    IN  Of(clean_str(_get_pascal(raw, <<"state", "region", "State">>)))

\* lines 391-393
address_stage(raw, out) == Set(out, "address", address_raw(raw))

\* `if key in out and not out[key]: out[key] = value`
Fill(out, key, value) ==
    IF key \in DOMAIN out /\ ~Truthy(out[key]) THEN [out EXCEPT ![key] = value] ELSE out

\* lines 419-434
pincode_stage(raw, out, m, fs) ==
    LET Filled(zip_code_raw, d) ==
            Fill(Fill(Fill(Fill(Fill(out, "country", DictGet(d, "country")),
                                "state", DictGet(d, "state")),
                           "city", DictGet(d, "city")),
                      "district", DictGet(d, "district")),
                 "zip_code", zip_code_raw)
        Looked(zip_code_raw, A) ==
            IF DOMAIN A.val = {} THEN [out |-> out, m |-> A.m]
            ELSE [out |-> Filled(zip_code_raw, A.val), m |-> A.m]
        Stripped(zip_code_raw) ==
            Looked(zip_code_raw, lookup_address_by_pincode(zip_code_raw, m, fs))
        Of(given) == IF ~Truthy(given) THEN [out |-> out, m |-> m] ELSE Stripped(strip(str(given)))
    IN  Of(_get_pascal(raw, <<"zip_code", "zipcode", "postal_code", "pincode", "pin", "ZipCode">>))

\* lines 437-454
reverse_geocode_stage(raw, out, m, fs) ==
    LET Filled(d) ==
            Fill(Fill(Fill(Fill(Fill(out, "zip_code",
                                     Or(DictGet(d, "zip_code"), DictGet(d, "postal_code"))),
                                "city", DictGet(d, "city")),
                           "state", DictGet(d, "state")),
                      "country", DictGet(d, "country")),
                 "district", DictGet(d, "district"))
        Looked(Z) ==
            IF DOMAIN Z.val = {} THEN [out |-> out, m |-> Z.m]
            ELSE [out |-> Filled(Z.val), m |-> Z.m]
    IN  IF ~(Truthy(address_raw(raw)) /\ ~Truthy(get(out, "zip_code"))) THEN [out |-> out, m |-> m]
        ELSE Looked(lookup_zipcode_by_address(address_raw(raw), current_city(raw),
                                              current_state(raw), m, fs))

\* lines 456-468 with the default of native_state dropped
locality_stage_no_default(raw, out) ==
    LET Keep(o, key, value) == Set(o, key, Or(get(o, key), value))
    IN  Keep(Keep(Set(Keep(Set(Set(out, "village",
                                   clean_str(_get_pascal(raw, <<"village", "Village">>))),
                               "tahsil", clean_str(_get_pascal(raw, <<"tahsil", "Tahsil">>))),
                           "district", clean_str(_get_pascal(raw, <<"district", "District">>))),
                      "native_state",
                      clean_str(_get_pascal(raw, <<"native_state", "nativestate", "NativeState">>))),
                  "city", current_city(raw)),
             "zip_code",
             clean_str(_get_pascal(raw, <<"zip_code", "zipcode", "postal_code", "pincode",
                                          "ZipCode">>)))

\* lines 456-468
locality_stage(raw, out) ==
    LET \* out[key] = out.get(key) or value
        Keep(o, key, value) == Set(o, key, Or(get(o, key), value))
        Native(native_state_value) ==
            IF Truthy(native_state_value) THEN native_state_value ELSE "Rajasthan"
    IN  Keep(Keep(Set(Keep(Set(Set(out, "village",
                                   clean_str(_get_pascal(raw, <<"village", "Village">>))),
                               "tahsil", clean_str(_get_pascal(raw, <<"tahsil", "Tahsil">>))),
                           "district", clean_str(_get_pascal(raw, <<"district", "District">>))),
                      "native_state",
                      Native(clean_str(_get_pascal(raw, <<"native_state", "nativestate",
                                                          "NativeState">>)))),
                  "city", current_city(raw)),
             "zip_code",
             clean_str(_get_pascal(raw, <<"zip_code", "zipcode", "postal_code", "pincode",
                                          "ZipCode">>)))

\* the threshold find_closest_zipcode is called with at line 489
ZipThreshold == 65

\* lines 471-497
zip_fallback_stage(raw, out, m, fs) ==
    LET ZipOf(first) ==
            Or(DictGet(first, "zip_code"), Or(DictGet(first, "pincode"),
                                              DictGet(first, "postal_code")))
        Closest(o, mm, zipc) ==
            IF Truthy(zipc) THEN [out |-> Set(o, "zip_code", zipc), m |-> mm]
            ELSE [out |-> o, m |-> mm]
        Found(o, F) == IF F.val # <<>> THEN Closest(o, F.m, ZipOf(F.val[1])) ELSE [out |-> o, m |-> F.m]
        Partial(o, partial) ==
            IF Truthy(o["zip_code"]) \/ partial = "" THEN [out |-> o, m |-> m]
            ELSE Found(o, find_closest_zipcode(partial, ZipThreshold, m, fs))
        Extracted(o) ==
            Partial(o, join(", ", SelectSeq(<<address_raw(raw), get(o, "city"), get(o, "district"),
                                              get(o, "state"), get(o, "birth_place")>>, Truthy)))
        Of(components) ==
            Extracted(IF Truthy(components.zip_code) THEN Set(out, "zip_code", components.zip_code)
                      ELSE out)
    IN  IF ~("zip_code" \in DOMAIN out /\ ~Truthy(out["zip_code"])) THEN [out |-> out, m |-> m]
        ELSE Of(extract_address_components(Or(address_raw(raw), "")))

\* lines 500-512
country_state_stage(raw, out, m, fs, threshold, rf) ==
    LET Of(L, cs) == [out |-> Set(Set(out, "country", cs[1]), "state", cs[2]), m |-> L.m]
        Loaded(L) ==
            Of(L, normalize_country_state(_get_pascal(raw, <<"country", "nationality", "Country">>),
                                          _get_pascal(raw, <<"state", "region", "State">>),
                                          L.status = "ok", L.table, threshold, rf))
    IN  IF "country" \notin DOMAIN out /\ "state" \notin DOMAIN out THEN [out |-> out, m |-> m]
        ELSE Loaded(load_master(m, fs, "country_state"))

\* lines 515-528
height_stage(raw, out) ==
    Set(out, "height",
        IF Truthy(_get_pascal(raw, <<"height", "Height", "height_cm">>)) THEN Unmodelled ELSE None)

\* lines 531-536
contact_stage(raw, out) ==
    Set(Set(Set(out, "email_id", clean_str(_get_pascal(raw, <<"email_id", "email", "EmailId">>))),
            "mobile_no",
            clean_str(_get_pascal(raw, <<"mobile_no", "mobile", "phone", "contact", "MobileNo">>))),
        "phone_no", clean_str(_get_pascal(raw, <<"phone_no", "phone", "PhoneNo">>)))

unstructured_keys ==
    <<"notes", "description", "text", "raw_text", "comments", "about_yourself", "ABOUT YOURSELF">>

\* lines 539-549
enrich_stage(raw, out, m, fs) ==
    LET Enriched(unstructured_text, E) ==
            [out |-> Set(E.val, "about_yourself_summary",
                         summarize_about_yourself(str(unstructured_text))),
             m |-> E.m]
        Of(unstructured_text) ==
            IF ~Truthy(unstructured_text) THEN [out |-> out, m |-> m]
            ELSE Enriched(unstructured_text,
                          enrich_profile_from_unstructured_text(out, str(unstructured_text), m, fs))
    IN  Of(_get(raw, unstructured_keys))

\* ------------------------------------------------------------------------
\* State
\* ------------------------------------------------------------------------

VARIABLES
    masters,    \* masters.py module state: _CACHE and the read_excel count per key
    files,      \* state of the backing file of each key
    ret,        \* what the last load_master call of the single caller returned
    tpc,        \* concurrent callers: position inside load_master
    tkey,       \* concurrent callers: the key argument
    tdf,        \* concurrent callers: the local df of line 52
    tret,       \* concurrent callers: the value returned or exception raised
    mobile_in,  \* argument of the last normalize_mobile_number call
    mobile_out, \* its result
    has_rapidfuzz, \* whether matcher.py could import rapidfuzz
    raw,        \* normalize_profile: the raw_profile argument
    out,        \* normalize_profile: the dict `out`
    pc,         \* normalize_profile: the stage reached
    fn,         \* the function last called on its own ("none" before any call)
    arg,        \* its arguments
    res         \* what it returned

vars ==
    <<masters, files, ret, tpc, tkey, tdf, tret, mobile_in, mobile_out, has_rapidfuzz, raw, out,
      pc, fn, arg, res>>

\* bounds
NumCallers == 2
MaxReads == 2

Callers == 1..NumCallers

\* the keys the callers of the load_master specifications ask for
LoadKeys == {"caste", "marital_status", "manglik", UnknownKey}

NoRet == [key |-> None, status |-> "none", table |-> NoTable]

FilesAllOk == [k \in MasterKeys |-> "ok"]

\* every state of the files of the keys in ks, the other files being present
FileChoices(ks) ==
    { [k \in MasterKeys |-> IF k \in ks THEN f[k] ELSE "ok"] :
        f \in [ks -> FileStates] }

ThreadsIdle ==
    /\ tpc = [t \in Callers |-> "idle"]
    /\ tkey = [t \in Callers |-> None]
    /\ tdf = [t \in Callers |-> NoTable]
    /\ tret = [t \in Callers |-> NoRet]

ThreadVars == <<tpc, tkey, tdf, tret>>

PhoneIdle == mobile_in = None /\ mobile_out = None

PhoneVars == <<mobile_in, mobile_out>>

NormIdle == has_rapidfuzz = TRUE /\ raw = EmptyDict /\ out = EmptyDict /\ pc = "idle"

NormVars == <<has_rapidfuzz, raw, out, pc>>

CallIdle == fn = "none" /\ arg = <<>> /\ res = <<>>

CallVars == <<fn, arg, res>>

\* ------------------------------------------------------------------------
\* load_master called by a single caller (masters.py 38-54)
\* ------------------------------------------------------------------------

LoadMasterCall(key) ==
    /\ key \in MasterKeys => masters.reads[key] < MaxReads
    /\ LET r == load_master(masters, files, key)
       IN  /\ masters' = r.m
           /\ ret' = [key |-> key, status |-> r.status, table |-> r.table]
    /\ UNCHANGED <<files, ThreadVars, PhoneVars, NormVars, CallVars>>

InitLoad ==
    /\ masters = MastersInit
    /\ files \in FileChoices(LoadKeys \cap MasterKeys)
    /\ ret = NoRet
    /\ ThreadsIdle
    /\ PhoneIdle
    /\ NormIdle
    /\ CallIdle

NextLoad == \E key \in LoadKeys : LoadMasterCall(key)

SpecLoad == InitLoad /\ [][NextLoad]_vars

\* ------------------------------------------------------------------------
\* load_master called by concurrent callers: one action per step of the
\* function body, the steps of different callers interleave
\* ------------------------------------------------------------------------

InFlight(key) == Cardinality({ t \in Callers : tkey[t] = key /\ tpc[t] \in {"check", "read"} })

\* a caller enters load_master(key)
TCall(t, key) ==
    /\ tpc[t] \in {"idle", "done"}
    /\ key \in MasterKeys => masters.reads[key] + InFlight(key) < MaxReads
    /\ tpc' = [tpc EXCEPT ![t] = "check"]
    /\ tkey' = [tkey EXCEPT ![t] = key]
    /\ tdf' = [tdf EXCEPT ![t] = NoTable]
    /\ tret' = [tret EXCEPT ![t] = NoRet]
    /\ UNCHANGED <<masters, files, ret, PhoneVars, NormVars, CallVars>>

\* lines 44-51: the cache test, the key test and the file search
TCheck(t) ==
    /\ tpc[t] = "check"
    /\ LET key == tkey[t]
           done(status, table) ==
               /\ tpc' = [tpc EXCEPT ![t] = "done"]
               /\ tret' = [tret EXCEPT ![t] = [key |-> key, status |-> status, table |-> table]]
       IN  IF key \in DOMAIN masters.cache THEN done("ok", masters.cache[key])
           ELSE IF key \notin MasterKeys THEN done("KeyError", NoTable)
           ELSE IF _find_file(files, key) = None THEN done("FileNotFoundError", NoTable)
           ELSE /\ tpc' = [tpc EXCEPT ![t] = "read"]
                /\ tret' = tret
    /\ UNCHANGED <<masters, files, ret, tkey, tdf, PhoneVars, NormVars, CallVars>>

\* line 52: df = pd.read_excel(path)
TRead(t) ==
    /\ tpc[t] = "read"
    /\ LET key == tkey[t]
       IN  /\ masters' = CountRead(masters, key)
           /\ IF files[key] = "unreadable"
              THEN /\ tpc' = [tpc EXCEPT ![t] = "done"]
                   /\ tret' = [tret EXCEPT ![t] =
                                 [key |-> key, status |-> "ReadError", table |-> NoTable]]
                   /\ tdf' = tdf
              ELSE /\ tpc' = [tpc EXCEPT ![t] = "store"]
                   /\ tdf' = [tdf EXCEPT ![t] = read_excel(key, masters.reads[key] + 1)]
                   /\ tret' = tret
    /\ UNCHANGED <<files, ret, tkey, PhoneVars, NormVars, CallVars>>

\* lines 53-54: _CACHE[key] = df; return df
TStore(t) ==
    /\ tpc[t] = "store"
    /\ masters' = [masters EXCEPT !.cache = Put(@, tkey[t], tdf[t])]
    /\ tpc' = [tpc EXCEPT ![t] = "done"]
    /\ tret' = [tret EXCEPT ![t] = [key |-> tkey[t], status |-> "ok", table |-> tdf[t]]]
    /\ UNCHANGED <<files, ret, tkey, tdf, PhoneVars, NormVars, CallVars>>

InitConc ==
    /\ masters = MastersInit
    /\ files \in FileChoices({"caste", "manglik"})
    /\ ret = NoRet
    /\ ThreadsIdle
    /\ PhoneIdle
    /\ NormIdle
    /\ CallIdle

NextConc ==
    \/ \E t \in Callers, key \in {"caste", "manglik", UnknownKey} : TCall(t, key)
    \/ \E t \in Callers : TCheck(t)
    \/ \E t \in Callers : TRead(t)
    \/ \E t \in Callers : TStore(t)

SpecConc == InitConc /\ [][NextConc]_vars

\* ------------------------------------------------------------------------
\* Claims on the master cache
\* ------------------------------------------------------------------------

\* C9: in a sequence of load_master calls by a single caller, once a key is
\* cached (one load of it succeeded) no later call runs read_excel for that
\* key, the cached table stays the same object, and every later load of the
\* key returns that object; hence at most one read of a key ever succeeds.
C9_LoadOncePerKey ==
    [][\A key \in DOMAIN masters.cache :
          /\ masters'.reads[key] = masters.reads[key]
          /\ key \in DOMAIN masters'.cache /\ masters'.cache[key] = masters.cache[key]
          /\ ret'.key = key => ret'.status = "ok" /\ ret'.table = masters.cache[key]]_vars

\* a second load of a cached key has returned the cached table
C9_Witness ==
    /\ ret.key \in DOMAIN masters.cache
    /\ ret.status = "ok"
    /\ masters.reads[ret.key] = 1
    /\ \E k \in MasterKeys : masters.reads[k] = 2

\* C10: when callers load the same uncached key concurrently, the file of
\* the key is read once and all of them receive the same table object.
C10_NoDuplicateLoad ==
    /\ \A key \in MasterKeys : files[key] = "ok" => masters.reads[key] <= 1
    /\ \A t, u \in Callers :
          (tret[t].status = "ok" /\ tret[u].status = "ok" /\ tret[t].key = tret[u].key)
              => tret[t].table = tret[u].table

\* ------------------------------------------------------------------------
\* field_validators.py: PhoneNumberValidator.normalize_mobile_number
\* ------------------------------------------------------------------------

\* re.sub(r'\D', '', s)
RECURSIVE DigitsOnly(_)
DigitsOnly(s) ==
    IF Len(s) = 0 THEN ""
    ELSE IF Len(s) = 1 THEN (IF IsDigit(s) THEN s ELSE "")
    ELSE DigitsOnly(SubSeq(s, 1, Len(s) \div 2)) \o DigitsOnly(SubSeq(s, Len(s) \div 2 + 1, Len(s)))

\* normalize_mobile_number taking an 11-digit number with a trunk zero too
normalize_mobile_number_trunk0(value) ==
    IF ~Truthy(value) THEN None
    ELSE LET mobile_str == strip(str(value))
             digits_only == DigitsOnly(mobile_str)
         IN  IF Len(digits_only) = 10 THEN "+91 " \o digits_only
             ELSE IF Len(digits_only) = 11 /\ StartsWith(digits_only, "0")
                  THEN "+91 " \o SubSeq(digits_only, 2, 11)
             ELSE IF Len(digits_only) = 12 /\ StartsWith(digits_only, "91")
                  THEN "+91 " \o SubSeq(digits_only, 3, 12)
             ELSE IF Len(digits_only) = 13 /\ StartsWith(digits_only, "091")
                  THEN "+91 " \o SubSeq(digits_only, 4, 13)
             ELSE None

normalize_mobile_number(value) ==
    IF ~Truthy(value) THEN None
    ELSE LET mobile_str == strip(str(value))
             digits_only == DigitsOnly(mobile_str)
         IN  IF Len(digits_only) = 10 THEN "+91 " \o digits_only
             ELSE IF Len(digits_only) = 12 /\ StartsWith(digits_only, "91")
                  THEN "+91 " \o SubSeq(digits_only, 3, 12)
             ELSE IF Len(digits_only) = 13 /\ StartsWith(digits_only, "091")
                  THEN "+91 " \o SubSeq(digits_only, 4, 13)
             ELSE None

\* bound: the longest digit run of a phone input
MaxDigits == 13

\* digit sources the phone inputs are cut from
PhoneSeeds == {"98765432101234", "91987654321012", "09198765432101", "09876543210123"}

\* the ways an input writes its digits
PhoneStyles == {"plain", "plus", "dash", "padded", "spaced"}

Styled(d, style) ==
    CASE style = "plain" -> d
      [] style = "plus" -> "+" \o d
      [] style = "dash" -> IF Len(d) > 2 THEN SubSeq(d, 1, 2) \o "-" \o SubSeq(d, 3, Len(d)) ELSE d
      [] style = "padded" -> "  " \o d \o " "
      [] style = "spaced" -> IF Len(d) > 5
                                THEN SubSeq(d, 1, 5) \o " " \o SubSeq(d, 6, Len(d)) ELSE d

PhoneInputs ==
    { Styled(SubSeq(seed, 1, n), style) :
        seed \in PhoneSeeds, n \in 0..MaxDigits, style \in PhoneStyles }
    \cup {None}

NormalizeMobile(value) ==
    /\ mobile_in' = value
    /\ mobile_out' = normalize_mobile_number(value)
    /\ UNCHANGED <<masters, files, ret, ThreadVars, NormVars, CallVars>>

InitPhone ==
    /\ masters = MastersInit
    /\ files = FilesAllOk
    /\ ret = NoRet
    /\ ThreadsIdle
    /\ PhoneIdle
    /\ NormIdle
    /\ CallIdle

NextPhone == \E value \in PhoneInputs : NormalizeMobile(value)

SpecPhone == InitPhone /\ [][NextPhone]_vars

Canonical9876543210 == "+91 9876543210"

Dict(pairs) == [k \in { pairs[i][1] : i \in DOMAIN pairs } |-> Get(pairs, k)]

\* b laid over a
Merge(a, b) == [k \in (DOMAIN a) \cup (DOMAIN b) |-> IF k \in DOMAIN b THEN b[k] ELSE a[k]]

\* the profile of the end-to-end scenario
PriyaProfile ==
    Dict(<< <<"full_name", "Priya Sharma">>, <<"marital_status", "single">>, <<"manglik", "y">> >>)

\* the field values raw profiles are put together from
Fragments ==
    { Dict(<< <<"full_name", "Ankur Pareek">> >>),
      Dict(<< <<"FullName", "Sunita Joshi">> >>),
      Dict(<< <<"first_name", "Xyz">>, <<"last_name", "O">> >>),
      Dict(<< <<"gender", "f">> >>),
      Dict(<< <<"gender", "other">> >>),
      Dict(<< <<"Gender", "Male">> >>),
      Dict(<< <<"marital_status", "Married">> >>),
      Dict(<< <<"marital_status", "widowed">> >>),
      Dict(<< <<"marital_status", "separated">> >>),
      Dict(<< <<"marital_status", "Unknown">> >>),
      Dict(<< <<"manglik", "Yes">> >>),
      Dict(<< <<"manglik", "No">> >>),
      Dict(<< <<"manglik", "Don't Know">> >>),
      Dict(<< <<"manglik", "maybe">> >>),
      Dict(<< <<"religion", "Hindu">> >>),
      Dict(<< <<"gotra", "Upmanyu">> >>),
      Dict(<< <<"caste", "Joshi">> >>),
      Dict(<< <<"caste", "Zzz">> >>),
      Dict(<< <<"education", "Msc(IT)">> >>),
      Dict(<< <<"education", "MBA Finance">> >>),
      Dict(<< <<"occupation", "engineer">> >>),
      Dict(<< <<"occupation", "Data Associate">> >>),
      Dict(<< <<"address", "12 MG Road, Mumbai">> >>),
      Dict(<< <<"address", "Plot 5, Jaipur 302001">> >>),
      Dict(<< <<"city", "Jaipur">> >>),
      Dict(<< <<"city", "New Delhi">> >>),
      Dict(<< <<"pincode", "302001">> >>),
      Dict(<< <<"zip_code", "30200A">> >>),
      Dict(<< <<"state", "Central University of Rajasthan">> >>),
      Dict(<< <<"state", "Rajasthan">> >>),
      Dict(<< <<"state", "Rajastan">>, <<"country", "india">> >>),
      Dict(<< <<"country", "Atlantis">> >>),
      Dict(<< <<"native_state", "Gujarat">> >>),
      Dict(<< <<"mobile_no", "9876543210">> >>),
      Dict(<< <<"mobile", "+91 9876543210">> >>),
      Dict(<< <<"notes", "B.Tech from IIT College, Brahmin">> >>),
      Dict(<< <<"notes", "She is a sister and wife">> >>),
      Dict(<< <<"about_yourself", "Kashyap gotra -- Rigveda">> >>) }

\* a gender given against the name, values that are blank: one hiding the
\* same field under another spelling, two with nothing behind them, and a
\* caste of the master beside a gotra the master does not have
MixedProfiles ==
    { Dict(<< <<"full_name", "Ankur Pareek">>, <<"gender", "f">> >>),
      Dict(<< <<"full_name", "  ">>, <<"name", "Priya Sharma">> >>),
      Dict(<< <<"marital_status", "">>, <<"city", " ">>, <<"occupation", "engineer">> >>),
      Dict(<< <<"gotra", "Zzz">>, <<"caste", "Brahmin">> >>) }

\* the raw profiles: the empty one, the scenario's, each fragment alone, the
\* scenario's with an address laid over it, and the mixed ones
RawProfiles ==
    {EmptyDict, PriyaProfile}
    \cup Fragments
    \cup { Merge(PriyaProfile,
                 Dict(<< <<"state", "Central University of Rajasthan">>, <<"city", "Jaipur">>,
                         <<"notes", "M.Sc from Central University">> >>)) }
    \cup MixedProfiles

\* the deployments: the schema file and the masters present, absent or
\* unreadable
FileSetups ==
    { FilesAllOk,
      [FilesAllOk EXCEPT !["biodata_output"] = "missing"],
      [k \in MasterKeys |-> "missing"],
      [FilesAllOk EXCEPT !["biodata_output"] = "missing", !["caste"] = "unreadable",
                         !["marital_status"] = "missing", !["manglik"] = "unreadable",
                         !["country_state"] = "missing"],
      [FilesAllOk EXCEPT !["biodata_output"] = "unreadable"] }

\* cfg["threshold"]
threshold == Threshold80

\* a stage that loads no master
Stage(at, next, o) ==
    /\ pc = at
    /\ out' = o
    /\ pc' = next
    /\ UNCHANGED <<masters, files, ret, ThreadVars, PhoneVars, CallVars, has_rapidfuzz, raw>>

\* a stage that may load masters
StageM(at, next, r) ==
    /\ pc = at
    /\ out' = r.out
    /\ masters' = r.m
    /\ pc' = next
    /\ UNCHANGED <<files, ret, ThreadVars, PhoneVars, CallVars, has_rapidfuzz, raw>>

\* normalize_profile(raw_profile) is called
Call(raw_profile) ==
    /\ pc = "idle"
    /\ raw' = raw_profile
    /\ pc' = "schema"
    /\ UNCHANGED <<masters, files, ret, ThreadVars, PhoneVars, CallVars, has_rapidfuzz, out>>

\* lines 103-109: an exception of _load_schema leaves normalize_profile
LoadSchema ==
    /\ pc = "schema"
    /\ LET S == _load_schema(files)
       IN  IF S.status = "ok"
           THEN out' = [k \in Range(S.columns) |-> None] /\ pc' = "names"
           ELSE out' = out /\ pc' = "raised"
    /\ UNCHANGED <<masters, files, ret, ThreadVars, PhoneVars, CallVars, has_rapidfuzz, raw>>

Names == Stage("names", "dob_age", names_stage(raw, out))
DobAge == Stage("dob_age", "birth", dob_age_stage(raw, out))
Birth == Stage("birth", "gender", birth_stage(raw, out))
Gender == Stage("gender", "marital", gender_stage(raw, out))
Marital ==
    StageM("marital", "marital_enforce",
           marital_stage(raw, out, masters, files, threshold, has_rapidfuzz))
MaritalEnforce == Stage("marital_enforce", "manglik", marital_enforce_stage(raw, out, threshold))
Manglik ==
    StageM("manglik", "manglik_enforce",
           manglik_stage(raw, out, masters, files, threshold, has_rapidfuzz))
ManglikEnforce == Stage("manglik_enforce", "religion", manglik_enforce_stage(raw, out))
Religion == Stage("religion", "caste", religion_stage(raw, out))
Caste ==
    StageM("caste", "education", caste_stage(raw, out, masters, files, threshold, has_rapidfuzz))
Education ==
    StageM("education", "occupation", education_stage(raw, out, masters, files, has_rapidfuzz))
Occupation ==
    StageM("occupation", "address", occupation_stage(raw, out, masters, files, has_rapidfuzz))
Address == Stage("address", "pincode", address_stage(raw, out))
Pincode == StageM("pincode", "reverse_geocode", pincode_stage(raw, out, masters, files))
ReverseGeocode ==
    StageM("reverse_geocode", "locality", reverse_geocode_stage(raw, out, masters, files))
Locality == Stage("locality", "zip_fallback", locality_stage(raw, out))
ZipFallback == StageM("zip_fallback", "country_state", zip_fallback_stage(raw, out, masters, files))
CountryState ==
    StageM("country_state", "height",
           country_state_stage(raw, out, masters, files, threshold, has_rapidfuzz))
Height == Stage("height", "contact", height_stage(raw, out))
Contact == Stage("contact", "enrich", contact_stage(raw, out))
Enrich == StageM("enrich", "return", enrich_stage(raw, out, masters, files))

\* line 551: return out
Return == Stage("return", "done", out)

InitNorm ==
    /\ masters = MastersInit
    /\ files \in FileSetups
    /\ ret = NoRet
    /\ ThreadsIdle
    /\ PhoneIdle
    /\ CallIdle
    /\ has_rapidfuzz \in BOOLEAN
    /\ raw = EmptyDict
    /\ out = EmptyDict
    /\ pc = "idle"

NextNorm ==
    \/ \E raw_profile \in RawProfiles : Call(raw_profile)
    \/ LoadSchema
    \/ Names
    \/ DobAge
    \/ Birth
    \/ Gender
    \/ Marital
    \/ MaritalEnforce
    \/ Manglik
    \/ ManglikEnforce
    \/ Religion
    \/ Caste
    \/ Education
    \/ Occupation
    \/ Address
    \/ Pincode
    \/ ReverseGeocode
    \/ Locality
    \/ ZipFallback
    \/ CountryState
    \/ Height
    \/ Contact
    \/ Enrich
    \/ Return

SpecNorm == InitNorm /\ [][NextNorm]_vars

\* normalize_profile(raw_profile) as one call: the stages in the order of
\* lines 103-551, from the module state m.  status tells whether the call
\* returned ("ok") or which exception left it.
normalize_profile(raw_profile, m, fs, th, rf) ==
    LET Pre(o) ==
            gender_stage(raw_profile,
                birth_stage(raw_profile,
                    dob_age_stage(raw_profile, names_stage(raw_profile, o))))
        Ma(o) == marital_stage(raw_profile, o, m, fs, th, rf)
        MaE(r) == [out |-> marital_enforce_stage(raw_profile, r.out, th), m |-> r.m]
        Mg(r) == manglik_stage(raw_profile, r.out, r.m, fs, th, rf)
        MgE(r) ==
            [out |-> religion_stage(raw_profile, manglik_enforce_stage(raw_profile, r.out)),
             m |-> r.m]
        Ca(r) == caste_stage(raw_profile, r.out, r.m, fs, th, rf)
        Ed(r) == education_stage(raw_profile, r.out, r.m, fs, rf)
        Oc(r) == occupation_stage(raw_profile, r.out, r.m, fs, rf)
        Pi(r) == pincode_stage(raw_profile, address_stage(raw_profile, r.out), r.m, fs)
        Rg(r) == reverse_geocode_stage(raw_profile, r.out, r.m, fs)
        Zf(r) == zip_fallback_stage(raw_profile, locality_stage(raw_profile, r.out), r.m, fs)
        Cs(r) == country_state_stage(raw_profile, r.out, r.m, fs, th, rf)
        En(r) ==
            enrich_stage(raw_profile,
                contact_stage(raw_profile, height_stage(raw_profile, r.out)), r.m, fs)
        Done(r) == [status |-> "ok", out |-> r.out, m |-> r.m]
        Of(S) ==
            IF S.status # "ok" THEN [status |-> S.status, out |-> EmptyDict, m |-> m]
            ELSE Done(En(Cs(Zf(Rg(Pi(Oc(Ed(Ca(MgE(Mg(MaE(Ma(Pre(
                     [k \in Range(S.columns) |-> None]))))))))))))))
    IN  Of(_load_schema(fs))

\* ------------------------------------------------------------------------
\* Properties of normalize_profile
\* ------------------------------------------------------------------------

\* normalize_profile has returned `out`
Returned == pc = "done"

\* the resolved canonical schema: the header of the schema file, or the
\* embedded default list
Schema == Range(_load_schema(files).columns)

\* a field of the returned profile is absent: null, or not a key at all
Absent(f) == get(out, f) = None

\* the reference data of the deployment is readable for a key
Readable(key) == files[key] = "ok"

\* C1: the key set of the returned map is exactly the resolved canonical
\* schema, for every raw profile, with or without notes for the enrichment
\* pass: no schema key is missing and none outside the schema is added.
C1_KeySetIsSchema == Returned => DOMAIN out = Schema

C3_PriyaScenario ==
    ( /\ Returned
      /\ raw = PriyaProfile
      /\ Readable("marital_status") /\ Readable("manglik")
      /\ {"full_name", "first_name", "last_name", "marital_status", "manglik"} \subseteq DOMAIN out )
    => /\ out["full_name"] = "Priya Sharma"
       /\ out["first_name"] = "Priya"
       /\ out["last_name"] = "Sharma"
       /\ out["marital_status"] = "Single"
       /\ out["manglik"] = "Yes"

\* the fields the scenario of C3 and C4 supplies or derives
ScenarioFields == {"full_name", "first_name", "last_name", "marital_status", "manglik", "gender"}

\* the fields normalize_profile gives a default when nothing supplies them
DefaultedFields == {"manglik", "native_state", "country"}

\* C4 as claimed: for the scenario's profile every schema field other than
\* full_name, first_name, last_name, marital_status, manglik and gender is
\* absent, and for the empty profile every field is absent.
C4_AsClaimed ==
    Returned =>
        /\ raw = PriyaProfile => \A f \in DOMAIN out \ ScenarioFields : out[f] = None
        /\ raw = EmptyDict => \A f \in DOMAIN out : out[f] = None

\* C4 amended: for the scenario's profile every schema field other than the
\* six above and the defaulted native_state and country is absent, and for
\* the empty profile every field other than manglik, native_state and
\* country is absent; in both cases native_state is "Rajasthan", country is
\* "India" when the country/state master is readable and absent when it is
\* not, and for the empty profile manglik is "Don't Know".
C4_AbsentButDefaults ==
    Returned =>
        /\ raw = PriyaProfile =>
               \A f \in DOMAIN out \ (ScenarioFields \cup DefaultedFields) : out[f] = None
        /\ raw = EmptyDict => \A f \in DOMAIN out \ DefaultedFields : out[f] = None
        /\ raw \in {PriyaProfile, EmptyDict} =>
               /\ "native_state" \in DOMAIN out => out["native_state"] = "Rajasthan"
               /\ "country" \in DOMAIN out =>
                      out["country"] = IF Readable("country_state") THEN "India" ELSE None
        /\ raw = EmptyDict /\ "manglik" \in DOMAIN out => out["manglik"] = "Don't Know"

\* the empty profile was returned under the default schema with the three
\* defaults set and nothing else
C4_Witness ==
    /\ Returned
    /\ raw = EmptyDict
    /\ DOMAIN out = Range(DefaultSchema)
    /\ out["native_state"] = "Rajasthan" /\ out["country"] = "India"
    /\ out["manglik"] = "Don't Know"
    /\ \A f \in DOMAIN out \ DefaultedFields : out[f] = None

\* C5: a raw profile whose state is "Central University of Rajasthan" comes
\* back with the state field absent.
C5_InstitutionStateAbsent ==
    (Returned /\ DictGet(raw, "state") = "Central University of Rajasthan") => Absent("state")

\* C6: every field of the returned profile satisfies validate_field, as
\* after a closing sanitize pass: a constrained field is absent or matches
\* its shape pattern and none of its suspicious patterns.
C6_ReturnedFieldsValid == Returned => \A f \in DOMAIN out : validate_field(f, out[f])

\* the gender tokens lines 192-195 recognize
GenderTokens == {"m", "male", "boy", "f", "female", "girl", "woman"}

\* the gender value the raw profile gives, cleaned (None when it gives none)
GivenGender == clean_str(_get_pascal(raw, <<"gender", "sex", "Gender">>))

\* C8 as claimed: the returned gender is "Male", "Female" or absent, also
\* when the raw profile gives a gender that is none of the recognized tokens.
C8_AsClaimed == Returned => get(out, "gender") \in {"Male", "Female", None}

\* C8 amended: the returned gender is "Male", "Female" or absent ("Male" for
\* a given m, male or boy, "Female" for f, female, girl or woman), except
\* when the raw profile gives a gender value that is none of the recognized
\* tokens: that value is returned as given (cleaned).
C8_GenderCanonicalOrGiven ==
    Returned /\ "gender" \in DOMAIN out =>
        IF ~Truthy(GivenGender) THEN out["gender"] \in {"Male", "Female", None}
        ELSE IF strip(lower(GivenGender)) \in {"m", "male", "boy"} THEN out["gender"] = "Male"
        ELSE IF strip(lower(GivenGender)) \in GenderTokens THEN out["gender"] = "Female"
        ELSE out["gender"] = GivenGender

\* the token "f" was returned as "Female"
C8_Witness ==
    /\ Returned
    /\ raw = Dict(<< <<"gender", "f">> >>)
    /\ get(out, "gender") = "Female"

\* C11: once a master table is cached no operation changes it: every cached
\* table has the column names and the cells read_excel gave it when it was
\* loaded
C11_CachedTableAsLoaded ==
    \A key \in DOMAIN masters.cache :
        /\ masters.cache[key].cols = Storage(key).cols
        /\ masters.cache[key].rows = Storage(key).rows

\* ------------------------------------------------------------------------
\* match_one called on its own
\* ------------------------------------------------------------------------

\* the queries: a master value, the value in lower case, with a leading
\* blank, cut short and misspelt, and the empty ones
MatchQueries == {"Joshi", "joshi", " Joshi", "Josh", "Rajastan", "", "  ", None}

\* the candidate lists, in the caller's order
MatchChoices ==
    { <<>>,
      <<"Joshi">>,
      <<" Joshi">>,
      <<"Joshi", "JOSHI">>,
      <<"Joshx", "Joshy">>,
      <<"Pareek", "Joshi", "Agarwal">>,
      <<"Rajasthan", "Maharashtra">>,
      <<"Zzz">> }

MatchThresholds == {Zero, Score(50, 1), Threshold80, Hundred}

\* match_one(query, choices, threshold=threshold)
MatchOne(query, choices, th) ==
    /\ fn = "none"
    /\ fn' = "match_one"
    /\ arg' = <<query, choices, th>>
    /\ res' = match_one(query, choices, th, has_rapidfuzz)
    /\ UNCHANGED <<masters, files, ret, ThreadVars, PhoneVars, raw, out, pc, has_rapidfuzz>>

InitMatch ==
    /\ masters = MastersInit
    /\ files = FilesAllOk
    /\ ret = NoRet
    /\ ThreadsIdle
    /\ PhoneIdle
    /\ CallIdle
    /\ has_rapidfuzz \in BOOLEAN
    /\ raw = EmptyDict
    /\ out = EmptyDict
    /\ pc = "idle"

NextMatch ==
    \E query \in MatchQueries, choices \in MatchChoices, th \in MatchThresholds :
        MatchOne(query, choices, th)

SpecMatch == InitMatch /\ [][NextMatch]_vars

\* match_one has been called with a query that is not empty
Matched == fn = "match_one" /\ arg[1] # None /\ strip(arg[1]) # ""

\* the scores of the candidates against the query as match_one takes it
CandidateScores ==
    ListOf([i \in DOMAIN arg[2] |->
               IF has_rapidfuzz THEN WRatio(strip(arg[1]), arg[2][i])
               ELSE _difflib_score(lower(strip(arg[1])), lower(arg[2][i]))])

\* the positions no other position outscores
TopOf(scores) == { i \in DOMAIN scores : \A j \in DOMAIN scores : ScoreGE(scores[i], scores[j]) }

\* the candidates no other candidate outscores
TopCandidates == TopOf(CandidateScores)

\* the best score among the candidates, 0 for an empty list
TopScore ==
    LET Of(scores) == IF scores = <<>> THEN Zero ELSE scores[SetMin(TopOf(scores))]
    IN  Of(CandidateScores)

\* C12: for a non-empty query, a candidate equal to the query is matched with
\* score 100 at every threshold up to 100, and an empty candidate list gives
\* an absent result
C12_ExactMatchScores100 ==
    Matched =>
        /\ (\E k \in DOMAIN arg[2] : arg[2][k] = arg[1]) /\ ScoreGE(Hundred, arg[3])
               => res.match # None /\ res.score = Hundred
        /\ arg[2] = <<>> => res.match = None

\* C13: match_one returns a match only when the best candidate's score is at
\* least the threshold; below the threshold it returns absent together with
\* that best score; an empty or whitespace-only query returns absent with
\* score 0 and a reason tag
C13_ThresholdGate ==
    fn = "match_one" =>
        IF ~Matched THEN res = [match |-> None, score |-> Zero, reason |-> "empty query"]
        ELSE LET Gate(best) ==
                     /\ res.score = best
                     /\ res.match # None => ScoreGE(best, arg[3])
                     /\ ScoreGT(arg[3], best) => res.match = None
             IN  Gate(TopScore)

\* a near miss: the misspelt state scored above 80 and below 100, and at
\* threshold 100 came back absent with that score
C13_Witness ==
    /\ fn = "match_one"
    /\ arg = <<"Rajastan", <<"Rajasthan", "Maharashtra">>, Hundred>>
    /\ res.match = None
    /\ ScoreGT(res.score, Threshold80)
    /\ ScoreGT(Hundred, res.score)

\* C14: match_one selects the candidate with the maximum score, the first in
\* the supplied order among those that share it
C14_FirstOfBest ==
    LET Pick(scores, first) ==
            /\ res.match # None => res.match = arg[2][first] /\ res.score = scores[first]
            /\ ScoreGT(scores[first], Zero) /\ ScoreGE(scores[first], arg[3])
                   => res.match = arg[2][first]
        Of(scores) == Pick(scores, SetMin(TopOf(scores)))
    IN  Matched /\ arg[2] # <<>> => Of(CandidateScores)

\* two candidates tied for the query "Josh"; the first was returned
C14_Witness ==
    /\ fn = "match_one"
    /\ arg = <<"Josh", <<"Joshx", "Joshy">>, Threshold80>>
    /\ Cardinality(TopCandidates) = 2
    /\ res.match = "Joshx"

\* ------------------------------------------------------------------------
\* FieldValidator.sanitize_profile called on its own
\* ------------------------------------------------------------------------

\* the profiles handed to sanitize_profile: constrained fields with valid,
\* invalid, null, empty and blank values, and two unconstrained fields
SanitizeProfiles ==
    [ state : {None, "", "  ", "Rajasthan", "Central University of Rajasthan"},
      marital_status : {None, "married", "Widow"},
      zip_code : {"302001", "30200A"},
      mobile_no : {"9876543210", "+91 9876543210"},
      gender : {None, "other"},
      height : {"x?"} ]

\* sanitize_profile(profile).  The function writes to profile.copy() only
\* (lines 293-300), so `arg`, the caller's dict after the call, is the dict
\* that was passed.
Sanitize(profile) ==
    /\ fn = "none"
    /\ fn' = "sanitize_profile"
    /\ arg' = profile
    /\ res' = sanitize_profile(profile)
    /\ UNCHANGED <<masters, files, ret, ThreadVars, PhoneVars, raw, out, pc, has_rapidfuzz>>

InitSanitize ==
    /\ masters = MastersInit
    /\ files = FilesAllOk
    /\ ret = NoRet
    /\ ThreadsIdle
    /\ PhoneIdle
    /\ NormIdle
    /\ CallIdle

NextSanitize == \E profile \in SanitizeProfiles : Sanitize(profile)

SpecSanitize == InitSanitize /\ [][NextSanitize]_vars

\* C15: sanitize_profile returns a profile with the keys of its input, in
\* which every field that fails validate_field is absent and every other
\* field (null, empty, blank and unconstrained ones among them) has the
\* input's value
C15_SanitizeNullsInvalidOnly ==
    fn = "sanitize_profile" =>
        /\ DOMAIN res = DOMAIN arg
        /\ \A f \in DOMAIN arg :
               /\ res[f] = IF validate_field(f, arg[f]) THEN arg[f] ELSE None
               /\ arg[f] \in {None, "", "  "} \/ f \notin CONSTRAINED_FIELDS => res[f] = arg[f]

\* an institution in state and a non-numeric zip_code were set to absent,
\* the valid and the unconstrained fields kept
C15_Witness ==
    /\ fn = "sanitize_profile"
    /\ arg["state"] = "Central University of Rajasthan"
    /\ arg["zip_code"] = "30200A"
    /\ arg["marital_status"] = "married"
    /\ res["state"] = None
    /\ res["zip_code"] = None
    /\ res["marital_status"] = "married"
    /\ res["height"] = "x?"

\* ------------------------------------------------------------------------
\* lookup_caste_by_any_field called on its own
\* ------------------------------------------------------------------------

\* the values looked up: cells of each column as written, in another case,
\* padded and misspelt, a jaati that is close to another row's gotra, a value
\* in no row, and the empty ones
CasteValues ==
    { "Upmanyu", "upmanyu", " Upmanyu ", "Kashyap", "Garg", "Rigveda", "Yajurveda",
      "Brahmin", "brahmin", "Bania", "Joshi", "Pareek", "Agarwal", "Parek", "Agrawal",
      "Kashyapa", "Brahman", "Garga", "Gargas", "Zzz", "", " ", None }

\* the caste master present, absent or unreadable
CasteSetups ==
    { FilesAllOk, [FilesAllOk EXCEPT !["caste"] = "missing"],
      [FilesAllOk EXCEPT !["caste"] = "unreadable"] }

\* lookup_caste_by_any_field(value)
LookupCaste(value) ==
    /\ fn = "none"
    /\ LET R == lookup_caste_by_any_field(value, masters, files, has_rapidfuzz)
       IN  /\ res' = R.val
           /\ masters' = R.m
    /\ fn' = "lookup_caste_by_any_field"
    /\ arg' = value
    /\ UNCHANGED <<files, ret, ThreadVars, PhoneVars, raw, out, pc, has_rapidfuzz>>

InitCaste ==
    /\ masters = MastersInit
    /\ files \in CasteSetups
    /\ ret = NoRet
    /\ ThreadsIdle
    /\ PhoneIdle
    /\ CallIdle
    /\ has_rapidfuzz \in BOOLEAN
    /\ raw = EmptyDict
    /\ out = EmptyDict
    /\ pc = "idle"

NextCaste == \E value \in CasteValues : LookupCaste(value)

SpecCaste == InitCaste /\ [][NextCaste]_vars

\* the caste master's cell under a field of the record: the column of that
\* name, whatever its case
CasteCell(i, f) ==
    LET c == CHOOSE c \in DOMAIN CasteMst.cols : lower(CasteMst.cols[c]) = f
    IN  CasteMst.rows[i][c]

\* the text a cell is compared by, None for an empty cell
CellKey(i, f) ==
    IF CasteCell(i, f) = None THEN None ELSE strip(lower(CasteCell(i, f)))

\* the value is found as it stands in some cell of the master
FoundExactly(value) ==
    \E i \in DOMAIN CasteMst.rows, f \in Range(search_fields) : CellKey(i, f) = strip(lower(value))

\* C16: a record lookup_caste_by_any_field returns holds the four cells of
\* one row of the caste master, the first row that has the hit's text in the
\* field of the hit
C16_OneRow ==
    fn = "lookup_caste_by_any_field" /\ res # NoDict =>
        \E i \in DOMAIN CasteMst.rows :
            /\ \A f \in Range(search_fields) :
                   res[f] = IF CasteCell(i, f) = None THEN None ELSE strip(CasteCell(i, f))
            /\ \E f \in Range(search_fields) :
                   /\ CellKey(i, f) # None
                   /\ FoundExactly(arg) => CellKey(i, f) = strip(lower(arg))
                   /\ \A j \in 1..(i - 1) : CellKey(j, f) # CellKey(i, f)

\* the same without the empty cells: every non-empty cell of the row is in
\* the record
C16_OneRowNonEmptyCells ==
    fn = "lookup_caste_by_any_field" /\ res # NoDict =>
        \E i \in DOMAIN CasteMst.rows :
            /\ \A f \in Range(search_fields) :
                   CasteCell(i, f) # None => res[f] = strip(CasteCell(i, f))
            /\ \E f \in Range(search_fields) :
                   /\ CellKey(i, f) # None
                   /\ FoundExactly(arg) => CellKey(i, f) = strip(lower(arg))
                   /\ \A j \in 1..(i - 1) : CellKey(j, f) # CellKey(i, f)

\* the name auto_detect_gender reads, and its first word in lower case
DetectName == Or(get(raw, "full_name"), Or(get(raw, "first_name"), get(raw, "name")))
FirstWord(name) == IF split(strip(lower(name))) = <<>> THEN "" ELSE split(strip(lower(name)))[1]

\* the first name is in neither dictionary and ends with no accepted suffix
UnknownName(first) ==
    /\ first \notin FEMALE_NAMES \cup MALE_NAMES
    /\ ~StrongSuffix(first, FEMALE_SUFFIXES, {"a", "i"})
    /\ ~StrongSuffix(first, MALE_SUFFIXES, {"u", "an"})

\* C17: a raw profile with gender "f" is returned with gender "Female"
\* whatever its name; a raw profile with no gender field, a first name in
\* neither dictionary and with no accepted suffix, and no context text is
\* returned with gender absent
C17_GenderGivenOrNoGuess ==
    Returned /\ "gender" \in DOMAIN out =>
        /\ DictGet(raw, "gender") = "f" => out["gender"] = "Female"
        /\ (/\ {"gender", "sex", "Gender"} \cap DOMAIN raw = {}
            /\ {"notes", "description", "text", "raw_text"} \cap DOMAIN raw = {}
            /\ ~Truthy(DetectName) \/ UnknownName(FirstWord(DetectName)))
               => out["gender"] = None

\* gender "f" under a name of the male dictionary was returned as "Female"
C17_Witness ==
    /\ Returned
    /\ raw = Dict(<< <<"full_name", "Ankur Pareek">>, <<"gender", "f">> >>)
    /\ "ankur" \in MALE_NAMES
    /\ get(out, "gender") = "Female"

\* the name Xyz, in no dictionary and with no suffix, was returned without a
\* gender
C17_NoGuessReached ==
    /\ Returned
    /\ raw = Dict(<< <<"first_name", "Xyz">>, <<"last_name", "O">> >>)
    /\ UnknownName("xyz")
    /\ "gender" \in DOMAIN out
    /\ out["gender"] = None

\* C18: normalize_profile never lets an exception reach its caller, whatever
\* the raw profile and the state of the reference files
C18_NoExceptionEscapes == pc # "raised"

\* the raw profile without the keys whose value is empty or blank
WithoutBlanks(d) ==
    LET kept == { k \in DOMAIN d : d[k] = None \/ strip(str(d[k])) # "" }
    IN  [k \in kept |-> d[k]]

\* the stages, taken one by one, return what normalize_profile as one call
\* returns
StagesAreTheCall ==
    Returned =>
        LET Same(R) == R.status = "ok" /\ out = R.out /\ masters = R.m
        IN  Same(normalize_profile(raw, MastersInit, files, threshold, has_rapidfuzz))

\* C19: normalize_profile returns for a raw profile what it returns for the
\* same profile without its empty and blank values; a blank value under one
\* spelling of a key hides no value given under another spelling
C19_BlankAsMissing ==
    Returned =>
        out = normalize_profile(WithoutBlanks(raw), MastersInit, files, threshold,
                                has_rapidfuzz).out

\* the raw values the marital_status, manglik and occupation stages read
MaritalGiven == clean_str(_get_pascal(raw, marital_keys))
ManglikGiven == clean_str(_get_pascal(raw, <<"manglik", "Manglik">>))
OccupationGiven == _get_pascal(raw, <<"occupation", "job", "profession", "Occupation">>)

\* C20: with the marital_status (manglik) dataset missing or unreadable the
\* field is returned absent for every raw value given, and occupation
\* passes its raw value through when its dataset is missing
C20_AsClaimed ==
    Returned =>
        /\ ~Readable("marital_status") /\ Truthy(MaritalGiven) => Absent("marital_status")
        /\ ~Readable("manglik") /\ Truthy(ManglikGiven) => Absent("manglik")
        /\ ~Readable("occupation") /\ "occupation" \in DOMAIN out /\ Truthy(OccupationGiven)
               => out["occupation"] = strip(OccupationGiven)

\* what is returned instead: with the marital_status dataset missing or
\* unreadable the field goes through the built-in fallback: it is a member of the
\* enforcement list or absent, the member a raw value equals (ignoring case)
\* when there is one, and absent when no raw value is given; with the
\* manglik dataset missing or unreadable manglik is never absent: "Yes",
\* "No" or "Don't Know", the last when no raw value is given; occupation
\* passes its raw value through, stripped, when its dataset is missing or
\* unreadable
C20_FallbackWhenUnavailable ==
    Returned =>
        /\ ~Readable("marital_status") /\ "marital_status" \in DOMAIN out =>
               /\ out["marital_status"] \in Range(allowed) \cup {None}
               /\ ~Truthy(MaritalGiven) => out["marital_status"] = None
               /\ \A k \in DOMAIN allowed :
                      Truthy(MaritalGiven) /\ lower(strip(MaritalGiven)) = lower(allowed[k])
                          => out["marital_status"] = allowed[k]
        /\ ~Readable("manglik") /\ "manglik" \in DOMAIN out =>
               /\ out["manglik"] \in {"Yes", "No", "Don't Know"}
               /\ ~Truthy(ManglikGiven) => out["manglik"] = "Don't Know"
        /\ ~Readable("occupation") /\ "occupation" \in DOMAIN out =>
               out["occupation"] = IF Truthy(OccupationGiven) THEN strip(OccupationGiven) ELSE None

\* with every dataset missing, raw "Married" was returned as "Married" and
\* manglik as "Don't Know"
C20_FallbackReached ==
    /\ Returned
    /\ \A k \in MasterKeys : files[k] = "missing"
    /\ raw = Dict(<< <<"marital_status", "Married">> >>)
    /\ get(out, "marital_status") = "Married"
    /\ get(out, "manglik") = "Don't Know"

\* with every dataset missing, the occupation "engineer" was returned as
\* given
C20_OccupationPassedThrough ==
    /\ Returned
    /\ \A k \in MasterKeys : files[k] = "missing"
    /\ raw = Dict(<< <<"occupation", "engineer">> >>)
    /\ get(out, "occupation") = "engineer"

\* a value has no member of a list equal to it ignoring case, and match_one
\* finds none at the threshold
Unmatched(v, list) ==
    /\ \A k \in DOMAIN list : strip(lower(list[k])) # strip(lower(v))
    /\ match_one(v, list, threshold, has_rapidfuzz).match = None

\* the value lists a strict field is matched against: the master's column
\* when the master can be read, and the local allow-list
ReferenceLists(key, local) ==
    {local} \cup (IF Readable(key) THEN {astype_str(dropna(Column(Storage(key), 1)))} ELSE {})

\* the local variants table gives the value no allow-list member
NoVariant(table, key) == ~HasKey(table, key) \/ Get(table, key) = None

\* C21: a raw marital_status or manglik value with no exact and no
\* approximate match in the reference data and the local allow-lists (their
\* variants tables included) is returned absent, never as an allow-list
\* member reached through substring containment or a default
C21_UnmatchedIsAbsent ==
    Returned =>
        /\ (/\ Truthy(MaritalGiven)
            /\ NoVariant(MaritalVariants, lower(MaritalGiven))
            /\ \A list \in ReferenceLists("marital_status", MARITAL_ALLOWED) \cup {allowed} :
                   Unmatched(MaritalGiven, list)
            /\ fuzzy_extractOne(strip(MaritalGiven), allowed)[2] < 80)
               => Absent("marital_status")
        /\ (/\ Truthy(ManglikGiven)
            /\ NoVariant(ManglikVariants, KeepLowerAlnumSpace(lower(ManglikGiven)))
            /\ \A list \in ReferenceLists("manglik", MANGLIK_ALLOWED) :
                   Unmatched(ManglikGiven, list))
               => Absent("manglik")

\* ------------------------------------------------------------------------
\* sanitize_lm_extraction called on its own
\* ------------------------------------------------------------------------

\* AddressValidator.is_valid_zipcode
is_valid_zipcode(value) ==
    IF ~Truthy(value) THEN FALSE ELSE re_match(Pattern_zip_code, strip(str(value)), FALSE)

\* AddressValidator.extract_zipcode: the first match of \b\d{5,10}\b
extract_zipcode(text) ==
    LET First(s, spans) ==
            IF spans = <<>> THEN None ELSE SubSeq(s, spans[1][1], spans[1][2] - 1)
        Of(s) == First(s, FindSpans(RSeq(<<RWordB, RRep(RSet(Digits), 5, 10), RWordB>>), s, 1, FALSE))
    IN  IF ~Truthy(text) THEN None ELSE Of(str(text))

\* sanitize_lm_extraction(raw_profile): the validation pass, then the zip
\* code and the mobile number clean-ups, each on the result of the pass
\* before it
sanitize_lm_extraction(raw_profile) ==
    LET Zip(zip, extracted) ==
            IF Truthy(extracted) /\ is_valid_zipcode(extracted) THEN extracted
            ELSE IF ~is_valid_zipcode(str(zip)) THEN None
            ELSE zip
        Mobile(sanitized) ==
            IF "mobile_no" \in DOMAIN sanitized /\ Truthy(sanitized["mobile_no"])
            THEN [sanitized EXCEPT !["mobile_no"] = normalize_mobile_number(str(@))]
            ELSE sanitized
        ZipCode(sanitized) ==
            IF "zip_code" \in DOMAIN sanitized /\ Truthy(sanitized["zip_code"])
            THEN [sanitized EXCEPT !["zip_code"] = Zip(@, extract_zipcode(str(@)))]
            ELSE sanitized
    IN  Mobile(ZipCode(sanitize_profile(raw_profile)))

\* the extractions handed over: mobile numbers in the national, the
\* prefixed and the canonical form and a short one, with other fields valid
\* and invalid
LMProfiles ==
    [ mobile_no : {None, "9876543210", "919876543210", "+91-9876543210", "+919876543210",
                   "+91 9876543210", "12345"},
      zip_code : {None, "302001", "30200A"},
      state : {None, "Rajasthan", "Central University of Rajasthan"},
      marital_status : {"Married", "Widow"} ]

\* sanitize_lm_extraction(raw_profile)
SanitizeLM(raw_profile) ==
    /\ fn = "none"
    /\ fn' = "sanitize_lm_extraction"
    /\ arg' = raw_profile
    /\ res' = sanitize_lm_extraction(raw_profile)
    /\ UNCHANGED <<masters, files, ret, ThreadVars, PhoneVars, raw, out, pc, has_rapidfuzz>>

NextLM == \E raw_profile \in LMProfiles : SanitizeLM(raw_profile)

SpecLM == InitSanitize /\ [][NextLM]_vars

\* the digits of a mobile number that normalize_mobile_number accepts as a
\* national number or as one prefixed with 91
NationalDigits(value) ==
    LET Of(d) ==
            IF Len(d) = 10 THEN d
            ELSE IF Len(d) = 12 /\ StartsWith(d, "91") THEN SubSeq(d, 3, 12)
            ELSE None
    IN  IF ~Truthy(value) THEN None ELSE Of(DigitsOnly(value))

\* C29: sanitize_lm_extraction returns a mobile_no that is a bare 10-digit
\* number, or 12 digits starting with 91 in any punctuation, in the form
\* "+91 <10 digits>": the validation pass does not discard it first
C29_MobileNormalized ==
    fn = "sanitize_lm_extraction" /\ NationalDigits(arg["mobile_no"]) # None =>
        res["mobile_no"] = "+91 " \o NationalDigits(arg["mobile_no"])

\* what is returned instead: only a number already written +91 and ten
\* digits (one blank between them at most) comes back, in canonical form
C29_OnlyCanonicalSurvives ==
    fn = "sanitize_lm_extraction" =>
        res["mobile_no"] =
            IF arg["mobile_no"] \in {"+919876543210", "+91 9876543210"} THEN "+91 9876543210"
            ELSE None

\* ------------------------------------------------------------------------
\* validators.py: safe_parse_response
\* ------------------------------------------------------------------------

\* A JSON value is a record with its kind: "dict" (val: the dict, a string
\* member as the string, a null member as None, any other member as its
\* record), "list", "str", "number", "bool", and "null", which is Python's
\* None.
JsonNone == [kind |-> "null"]

PyVal(v) == IF v.kind = "str" THEN v.val ELSE IF v.kind = "null" THEN None ELSE v

NoParse == [ok |-> FALSE, val |-> JsonNone, next |-> 0]
Parsed(v, n) == [ok |-> TRUE, val |-> v, next |-> n]

\* the first position from i on that holds no whitespace, Len(s) + 1 if none
SkipWs(s, i) ==
    LET Of(rest) == IF rest = {} THEN Len(s) + 1 ELSE SetMin(rest)
    IN  Of({ j \in i..Len(s) : ~IsSpace(CharAt(s, j)) })

Is(s, i, c) == i <= Len(s) /\ CharAt(s, i) = c

\* a string literal opening at i; escapes are outside the model's texts, and
\* a control character inside a literal is an error
ScanString(s, i) ==
    LET Body(j) == SubSeq(s, i + 1, j - 1)
        Close(ends) ==
            IF ends = {} THEN NoParse
            ELSE IF \E k \in (i + 1)..(SetMin(ends) - 1) : CharAt(s, k) \in {"\n", "\t", "\\"}
            THEN NoParse
            ELSE Parsed([kind |-> "str", val |-> Body(SetMin(ends))], SetMin(ends) + 1)
    IN  IF ~Is(s, i, "\"") THEN NoParse
        ELSE Close({ j \in (i + 1)..Len(s) : CharAt(s, j) = "\"" })

\* an integer literal opening at i
ScanNumber(s, i) ==
    LET Run(d, stop) ==
            IF stop = d THEN NoParse
            ELSE IF CharAt(s, d) = "0" THEN Parsed([kind |-> "number", val |-> "0"], d + 1)
            ELSE Parsed([kind |-> "number", val |-> SubSeq(s, i, stop - 1)], stop)
        Of(d) == Run(d, SetMin({ j \in d..(Len(s) + 1) : j > Len(s) \/ ~IsDigit(CharAt(s, j)) }))
    IN  Of(IF Is(s, i, "-") THEN i + 1 ELSE i)

ScanWord(s, i, word, v) ==
    IF i + Len(word) - 1 <= Len(s) /\ SubSeq(s, i, i + Len(word) - 1) = word
    THEN Parsed(v, i + Len(word))
    ELSE NoParse

\* the JSON decoder: a value opening at or after i0
RECURSIVE ParseValue(_, _)
RECURSIVE ParseMembers(_, _, _)
RECURSIVE ParseItems(_, _, _)
ParseValue(s, i0) ==
    LET Open(i, inner, empty, close, Rest(_)) ==
            IF Is(s, inner, close) THEN Parsed(empty, inner + 1) ELSE Rest(i + 1)
        At(i) ==
            IF i > Len(s) THEN NoParse
            ELSE IF CharAt(s, i) = "{"
            THEN Open(i, SkipWs(s, i + 1), [kind |-> "dict", val |-> [k \in {} |-> None]], "}",
                      LAMBDA j : ParseMembers(s, j, [k \in {} |-> None]))
            ELSE IF CharAt(s, i) = "["
            THEN Open(i, SkipWs(s, i + 1), [kind |-> "list", val |-> <<>>], "]",
                      LAMBDA j : ParseItems(s, j, <<>>))
            ELSE IF CharAt(s, i) = "\"" THEN ScanString(s, i)
            ELSE IF CharAt(s, i) = "-" \/ IsDigit(CharAt(s, i)) THEN ScanNumber(s, i)
            ELSE IF CharAt(s, i) = "n" THEN ScanWord(s, i, "null", JsonNone)
            ELSE IF CharAt(s, i) = "t" THEN ScanWord(s, i, "true", [kind |-> "bool", val |-> TRUE])
            ELSE IF CharAt(s, i) = "f" THEN ScanWord(s, i, "false", [kind |-> "bool", val |-> FALSE])
            ELSE NoParse
    IN  At(SkipWs(s, i0))

\* the members of an object from position i on, d the members read so far;
\* a repeated key keeps the later value
ParseMembers(s, i, d) ==
    LET After(K, V, e) ==
            IF Is(s, e, ",") THEN ParseMembers(s, e + 1, Put(d, K.val.val, PyVal(V.val)))
            ELSE IF Is(s, e, "}")
            THEN Parsed([kind |-> "dict", val |-> Put(d, K.val.val, PyVal(V.val))], e + 1)
            ELSE NoParse
        Value(K, V) == IF ~V.ok THEN NoParse ELSE After(K, V, SkipWs(s, V.next))
        Colon(K, c) == IF ~Is(s, c, ":") THEN NoParse ELSE Value(K, ParseValue(s, c + 1))
        Key(K) == IF ~K.ok THEN NoParse ELSE Colon(K, SkipWs(s, K.next))
    IN  Key(ScanString(s, SkipWs(s, i)))

\* the items of an array from position i on
ParseItems(s, i, q) ==
    LET After(V, e) ==
            IF Is(s, e, ",") THEN ParseItems(s, e + 1, Append(q, V.val))
            ELSE IF Is(s, e, "]") THEN Parsed([kind |-> "list", val |-> Append(q, V.val)], e + 1)
            ELSE NoParse
        Value(V) == IF ~V.ok THEN NoParse ELSE After(V, SkipWs(s, V.next))
    IN  Value(ParseValue(s, i))

\* json.loads(text): ok is FALSE for a JSONDecodeError, which text after the
\* value is too
json_loads(text) ==
    LET Of(R) ==
            IF R.ok /\ SkipWs(text, R.next) > Len(text) THEN [ok |-> TRUE, val |-> R.val]
            ELSE [ok |-> FALSE, val |-> JsonNone]
    IN  Of(ParseValue(text, 1))

\* the positions where a substring begins
Occurrences(s, sub) ==
    { i \in 1..(Len(s) - Len(sub) + 1) : SubSeq(s, i, i + Len(sub) - 1) = sub }

\* the fence of a markdown code block: three grave accents in the source; a
\* string of this module cannot hold that character, and the texts below
\* write a fence with the apostrophe in its place
CodeFence == "'''"

\* group 1 of FENCE(?:json)?\s*(.*?)FENCE on the first fenced block,
\* stripped; None when no block is closed
FencedText(text) ==
    LET Inner(t) == strip(IF StartsWith(t, "json") THEN SubSeq(t, 5, Len(t)) ELSE t)
        Closed(p, ends) == IF ends = {} THEN None ELSE Inner(SubSeq(text, p + 3, SetMin(ends) - 1))
        Of(opens) ==
            IF opens = {} THEN None
            ELSE Closed(SetMin(opens), { q \in opens : q >= SetMin(opens) + 3 })
    IN  Of(Occurrences(text, CodeFence))

\* the match of \{.*\} with DOTALL: from the first "{" to the last "}"
BracedText(text) ==
    LET Of(a, b) ==
            IF a = {} \/ b = {} THEN None
            ELSE IF SetMax(b) < SetMin(a) THEN None
            ELSE SubSeq(text, SetMin(a), SetMax(b))
    IN  Of(Occurrences(text, "{"), Occurrences(text, "}"))

\* extract_json_from_response: what json.loads gave for the fenced block,
\* else for the whole text, else for the braced part; JsonNone for None
extract_json_from_response(response_text) ==
    LET Braced(b) == IF b.ok THEN b.val ELSE JsonNone
        Brace(t) == IF t = None THEN JsonNone ELSE Braced(json_loads(t))
        Whole(w) == IF w.ok THEN w.val ELSE Brace(BracedText(response_text))
        Fenced(f) == IF f.ok THEN f.val ELSE Whole(json_loads(strip(response_text)))
        Fence(t) ==
            IF t = None THEN Whole(json_loads(strip(response_text))) ELSE Fenced(json_loads(t))
    IN  IF ~Truthy(response_text) \/ strip(response_text) = "" THEN JsonNone
        ELSE Fence(FencedText(response_text))

\* validate_extracted_data(data, schema)[0]
validate_extracted_data(data, schema) ==
    IF data.kind # "dict" THEN FALSE ELSE DOMAIN data.val = DOMAIN schema

\* normalize_response(data, schema), data a dict
normalize_response(data, schema) == [key \in DOMAIN schema |-> get(data, key)]

\* sanitize_extracted_data(data); with_sanitizer tells whether the import of
\* lines 11-14 succeeded
sanitize_extracted_data(data, with_sanitizer) ==
    IF with_sanitizer THEN sanitize_lm_extraction(data) ELSE data

\* safe_parse_response(response_text, schema): status "ok" with the dict
\* returned, or the exception that leaves the call.  data.get of line 104
\* raises AttributeError on a value that is no dict.
safe_parse_response(response_text, schema, with_sanitizer) ==
    LET Result(d) == [status |-> "ok", val |-> d]
        Clean(d) == Result(normalize_response(sanitize_extracted_data(d, with_sanitizer), schema))
        Of(extracted_data) ==
            IF extracted_data = JsonNone THEN Result(schema)
            ELSE IF validate_extracted_data(extracted_data, schema) THEN Clean(extracted_data.val)
            ELSE IF extracted_data.kind # "dict"
            THEN [status |-> "AttributeError", val |-> [k \in {} |-> None]]
            ELSE Clean(normalize_response(extracted_data.val, schema))
    IN  Of(extract_json_from_response(response_text))

\* the response texts handed over: empty and blank text, prose, an object
\* bare, fenced and inside prose, a truncated object, and JSON that is no
\* object
ResponseTexts ==
    { "", "   ", "not valid json", "{invalid json}",
      "{\"full_name\": \"John\"}",
      "{\"full_name\": \"John\", \"mobile_no\": null, \"state\": \"Rajasthan\"}",
      "{\"full_name\": \"John\", \"state\": \"Goa\"}",
      "{\"full_name\": \"John\", \"extra\": 28}",
      "Here is the data:\n'''json\n{\"full_name\": \"Jane\"}\n'''\n",
      "'''\n{\"state\": \"Goa\"}\n'''",
      "Based on the text: {\"full_name\": \"Bob\"} This is all.",
      "{\"full_name\": \"John\"",
      "{\"full_name\": }",
      "{}", "null", "[1, 2]", "42", "true", "\"John\"",
      "'''json\n[{\"full_name\": \"John\"}]\n'''" }

\* the schemas: keys with null defaults
ParseSchemas ==
    { [k \in keys |-> None] :
        keys \in { {"full_name"}, {"full_name", "state"}, {"full_name", "mobile_no", "state"} } }

\* safe_parse_response(response_text, schema)
SafeParse(response_text, schema, with_sanitizer) ==
    /\ fn = "none"
    /\ fn' = "safe_parse_response"
    /\ arg' = [text |-> response_text, schema |-> schema, with_sanitizer |-> with_sanitizer]
    /\ res' = safe_parse_response(response_text, schema, with_sanitizer)
    /\ UNCHANGED <<masters, files, ret, ThreadVars, PhoneVars, raw, out, pc, has_rapidfuzz>>

NextParse ==
    \E response_text \in ResponseTexts, schema \in ParseSchemas, with_sanitizer \in BOOLEAN :
        SafeParse(response_text, schema, with_sanitizer)

SpecParse == InitSanitize /\ [][NextParse]_vars

\* the text holds no parseable JSON object
NoJsonObject(text) == extract_json_from_response(text).kind # "dict"

\* C22: safe_parse_response never raises and returns a dict whose key set
\* is the schema's; when the text holds no parseable JSON object, every key
\* of the result is null.
C22_SchemaKeysNeverRaises ==
    fn = "safe_parse_response" =>
        /\ res.status = "ok"
        /\ DOMAIN res.val = DOMAIN arg.schema
        /\ NoJsonObject(arg.text) => \A k \in DOMAIN res.val : res.val[k] = None

\* Supporting C22: whenever the call returns, the key set is the schema's,
\* and text from which nothing or null is extracted gives the schema itself.
C22_ReturnedDictHasSchemaKeys ==
    (fn = "safe_parse_response" /\ res.status = "ok") =>
        /\ DOMAIN res.val = DOMAIN arg.schema
        /\ extract_json_from_response(arg.text) = JsonNone => res.val = arg.schema

\* the rows of the caste master a returned record can have been read from:
\* those whose non-null cells are the record's values in their fields
RowsRead(record) ==
    { i \in DOMAIN CasteMst.rows :
        \A f \in Range(search_fields) :
            CasteCell(i, f) # None => record[f] = strip(CasteCell(i, f)) }

\* C30: a null cell of the matched row gives None in the returned record,
\* and every value of the record that is not None is the text of a non-null
\* cell of that row.
C30_NullCellIsAbsent ==
    fn = "lookup_caste_by_any_field" /\ res # NoDict =>
        \E i \in RowsRead(res) :
            \A f \in Range(search_fields) :
                /\ CasteCell(i, f) = None => res[f] = None
                /\ res[f] # None => CasteCell(i, f) # None /\ res[f] = strip(CasteCell(i, f))

\* the raw profile gives manglik as a member of the allow-list, the manglik
\* master can be read and the schema has the field
CanonicalManglikGiven ==
    /\ Returned
    /\ Readable("manglik")
    /\ "manglik" \in DOMAIN out
    /\ "manglik" \in DOMAIN raw
    /\ raw["manglik"] \in Range(MANGLIK_ALLOWED)

\* C28: a raw manglik of "Yes", "No" or "Don't Know" is returned as given
C28_CanonicalManglikFixed == CanonicalManglikGiven => out["manglik"] = raw["manglik"]

\* Supporting C28: "Yes" and "No" are returned as given
C28_YesNoFixed ==
    CanonicalManglikGiven /\ raw["manglik"] \in {"Yes", "No"} => out["manglik"] = raw["manglik"]

\* a call given "Yes" has returned
C28_YesReached == CanonicalManglikGiven /\ raw["manglik"] = "Yes"

\* the rows whose cell under a field is the value, ignoring case
RowsWith(f, value) == { i \in DOMAIN CasteMst.rows : CellKey(i, f) = lower(strip(value)) }

\* the best approximate match of the value among the non-null cells under a
\* field, None when it is below the threshold
ApproximateIn(f, value) ==
    LET Of(cells) ==
            IF cells = <<>> THEN None
            ELSE match_one(strip(value), cells, Threshold80, has_rapidfuzz).match
    IN  Of(SelectSeq([i \in DOMAIN CasteMst.rows |-> CasteCell(i, f)], NotNull))

\* the record has the non-null cells of a row
ReadFrom(record, i) ==
    \A f \in Range(search_fields) : CasteCell(i, f) # None => record[f] = strip(CasteCell(i, f))

\* C23: the record returned is the first row with an exact hit in the first
\* of gotra, sakha, caste, jaati that has one; only without any exact hit it
\* is the row of the best approximate match in the first field that has one
\* at the threshold; else nothing is returned.  An exact hit in a later field
\* wins over an approximate one in an earlier field.
C23_ExactBeforeApproximate ==
    (fn = "lookup_caste_by_any_field" /\ files["caste"] = "ok" /\ Truthy(arg) /\ strip(arg) # "") =>
        LET Approximate(z, match(_)) ==
                IF z = 0 THEN res = NoDict
                ELSE /\ res # NoDict
                     /\ ReadFrom(res, SetMin({ i \in DOMAIN CasteMst.rows :
                                                  CasteCell(i, search_fields[z]) = match(z) }))
            Exact(e) ==
                IF e # 0
                THEN res # NoDict /\ ReadFrom(res, SetMin(RowsWith(search_fields[e], arg)))
                ELSE Approximate(FirstWhere(search_fields, LAMBDA f : ApproximateIn(f, arg) # None),
                                 LAMBDA z : ApproximateIn(search_fields[z], arg))
        IN  Exact(FirstWhere(search_fields, LAMBDA f : RowsWith(f, arg) # {}))

\* "Garga" is a jaati as written and close to the gotra "Garg" of another
\* row: the row of the jaati was returned
C23_Witness ==
    /\ fn = "lookup_caste_by_any_field"
    /\ files["caste"] = "ok"
    /\ arg = "Garga"
    /\ RowsWith("gotra", arg) = {}
    /\ ApproximateIn("gotra", arg) = "Garg"
    /\ res # NoDict
    /\ res["jaati"] = "Garga"
    /\ res["gotra"] = "Vatsa"

\* "Gargas" is close to the gotra "Garg" and closer to the jaati "Garga":
\* the row of the gotra, the earlier field, was returned
C23_FirstFieldNotBestField ==
    /\ fn = "lookup_caste_by_any_field"
    /\ files["caste"] = "ok"
    /\ arg = "Gargas"
    /\ ApproximateIn("jaati", arg) = "Garga"
    /\ res # NoDict
    /\ res["gotra"] = "Garg"

\* the joint caste lookup was made for the profile and found no row
JointLookupMissed ==
    /\ Truthy(caste_lookup_value(raw))
    /\ lookup_caste_by_any_field(caste_lookup_value(raw), masters, files, has_rapidfuzz).val = NoDict

\* the value the profile gives for a block of the fallback is, as written,
\* a cell of the block's column of the caste master
GivenInColumn(block) ==
    LET Of(v) ==
            /\ Truthy(v)
            /\ \E i \in DOMAIN CasteMst.rows : CasteCell(i, lower(block[3])) = v
    IN  Of(clean_str(_get_pascal(raw, block[2])))

\* C24: after a miss of the joint lookup, a raw jaati, caste, gotra or sakha
\* that is a value of its own column of the caste master is returned in that
\* field
C24_FallbackPerField ==
    (Returned /\ Readable("caste") /\ JointLookupMissed) =>
        \A k \in DOMAIN caste_fallback_blocks :
            LET Block(b) ==
                    (b[1] \in DOMAIN out /\ GivenInColumn(b)) =>
                        out[b[1]] = clean_str(_get_pascal(raw, b[2]))
            IN  Block(caste_fallback_blocks[k])

\* Supporting C24: after a miss of the joint lookup with the master read,
\* the four fields are returned absent unless the free text filled them
C24_FallbackEmitsNothing ==
    (Returned /\ Readable("caste") /\ JointLookupMissed
        /\ \A key \in Range(unstructured_keys) : ~Truthy(_get_pascal(raw, <<key>>))) =>
        \A f \in Range(search_fields) : f \in DOMAIN out => out[f] = None

\* the steps of the address resolution that follow the first one that can
\* set a field, the lookup keyed by the postal code
LaterAddressSteps == {"reverse_geocode", "locality", "zip_fallback", "country_state"}

\* a step of the address resolution leaves a field alone that an earlier
\* step has set
KeptByLaterSteps(f) ==
    (pc \in LaterAddressSteps /\ f \in DOMAIN out /\ Truthy(out[f])) => out'[f] = out[f]

\* C25: once country, state, city, district or zip_code is set during the
\* address resolution, no later step of the call replaces it
C25_NoOverwrite ==
    [][\A f \in {"country", "state", "city", "district", "zip_code"} : KeptByLaterSteps(f)]_vars

\* Supporting C25: city, district and zip_code are kept once set
C25_CityDistrictZipKept ==
    [][\A f \in {"city", "district", "zip_code"} : KeptByLaterSteps(f)]_vars

\* the postal-code lookup had set city and zip_code, and the call returned
\* them
C25_PincodeFieldsReturned ==
    /\ Returned
    /\ raw = Dict(<< <<"pincode", "302001">> >>)
    /\ get(out, "city") = "Jaipur"
    /\ get(out, "zip_code") = "302001"

\* ------------------------------------------------------------------------
\* parse_education_specialization called on its own
\* ------------------------------------------------------------------------

\* the education strings: degree and field in brackets, after a space and
\* alone, degrees as in the master, in another case, misspelt and unknown,
\* fields that are keys of the abbreviation table in either case and fields
\* that are not, and the empty ones
EducationStrings ==
    { "Msc(IT)", "B.Tech (Computer Science)", "MBA Finance", "B.Com", "b.com", "MBA",
      "mba hr", "Mtech(cse)", "B.Tech(XYZ)", "Zzz", "Zzz Finance", "PhD (Physics)",
      "M.Sc", "Msc( )", "B.Tec", "MBA  Finance Management", "B.Com(fm)", "BTech CS",
      " MBA Finance ", "", " ", None }

\* the qualification master present, absent or unreadable
QualificationSetups ==
    { FilesAllOk, [FilesAllOk EXCEPT !["qualification"] = "missing"],
      [FilesAllOk EXCEPT !["qualification"] = "unreadable"] }

\* parse_education_specialization(education_str)
ParseEducation(education_str) ==
    /\ fn = "none"
    /\ LET P == parse_education_specialization(education_str, masters, files, has_rapidfuzz)
       IN  /\ res' = [education |-> P.education, specialization |-> P.specialization]
           /\ masters' = P.m
    /\ fn' = "parse_education_specialization"
    /\ arg' = education_str
    /\ UNCHANGED <<files, ret, ThreadVars, PhoneVars, raw, out, pc, has_rapidfuzz>>

InitEducation ==
    /\ masters = MastersInit
    /\ files \in QualificationSetups
    /\ ret = NoRet
    /\ ThreadsIdle
    /\ PhoneIdle
    /\ CallIdle
    /\ has_rapidfuzz \in BOOLEAN
    /\ raw = EmptyDict
    /\ out = EmptyDict
    /\ pc = "idle"

NextEducation == \E education_str \in EducationStrings : ParseEducation(education_str)

SpecEducation == InitEducation /\ [][NextEducation]_vars

\* the cells of the qualification reference
QualificationValues == SelectSeq(Column(QualificationMst, 1), NotNull)

\* <<degree token, specialization token>> of an education string: the text
\* before and inside the brackets, else the text before and after the first
\* run of spaces, else the whole text with no specialization token
EducationTokens(education_str) ==
    LET Of(s) ==
            IF re_match(pattern1, s, FALSE)
            THEN <<strip(Pattern1Groups(s)[1]), strip(Pattern1Groups(s)[2])>>
            ELSE IF Len(SplitFirstSpace(s)) = 2
            THEN <<strip(SplitFirstSpace(s)[1]), strip(SplitFirstSpace(s)[2])>>
            ELSE <<s, None>>
    IN  IF ~Truthy(education_str) THEN <<None, None>> ELSE Of(strip(education_str))

\* the degree the reference gives a degree token: the first cell equal to it
\* ignoring case, else the approximate match at 80, else None
ReferenceDegree(token) ==
    LET Approx(match) == IF Truthy(match) THEN match ELSE None
        Of(k) ==
            IF k # 0 THEN QualificationValues[k]
            ELSE Approx(match_one(token, QualificationValues, Threshold80, has_rapidfuzz).match)
    IN  IF ~Truthy(token) THEN None
        ELSE Of(FirstWhere(QualificationValues, LAMBDA x : lower(x) = lower(token)))

\* the specialization a token stands for: the expansion of the abbreviation
\* table when the token is one of its keys ignoring case, else the token
Expansion(token) ==
    LET Of(k) == IF k = 0 THEN token ELSE abbrev_map[k][2]
    IN  IF ~Truthy(token) THEN None
        ELSE Of(FirstWhere(abbrev_map, LAMBDA pair : lower(pair[1]) = lower(token)))

DegreeAsClaimed ==
    /\ res.education = None \/ res.education \in Range(QualificationValues)
    /\ Readable("qualification") => res.education = ReferenceDegree(EducationTokens(arg)[1])

C26_UnknownDegreeAbsent ==
    /\ fn = "parse_education_specialization"
    /\ arg = "Zzz Finance"
    /\ Readable("qualification")
    /\ res.education = None
    /\ res.specialization = "Finance"

\* the profile with every key replaced by its Pascal-style alias
Aliased(profile) ==
    [a \in { pascal(k) : k \in DOMAIN profile } |->
        profile[CHOOSE k \in DOMAIN profile : pascal(k) = a]]

\* the profile gives values under snake_case keys of schema fields only
SchemaFieldsOnly ==
    /\ DOMAIN raw # {}
    /\ \A k \in DOMAIN raw : k \in Schema /\ pascal(k) # k /\ pascal(k) \notin DOMAIN raw

\* what normalize_profile returns for the profile under the aliases is what
\* it returned for the profile
AliasedSameOutput ==
    LET Same(R) == R.status = "ok" /\ R.out = out
    IN  Same(normalize_profile(Aliased(raw), MastersInit, files, threshold, has_rapidfuzz))

\* C27: a value supplied under the Pascal-style alias of a schema field
\* gives the output the same value gives under the snake_case key
C27_AliasSameAsSnakeCase == (Returned /\ SchemaFieldsOnly) => AliasedSameOutput

\* the keys read under the snake_case spelling only: address (line 391) and
\* the names auto_detect_gender takes from the raw profile
SnakeCaseOnly == {"address", "full_name", "first_name"}

\* Supporting C27: the same for every schema field but those
C27_AliasSameButSnakeCaseOnly ==
    (Returned /\ SchemaFieldsOnly /\ DOMAIN raw \cap SnakeCaseOnly = {}) => AliasedSameOutput

\* a city given as "City" was read like one given as "city"
C27_CityAliasRead ==
    /\ Returned
    /\ raw = Dict(<< <<"city", "Jaipur">> >>)
    /\ SchemaFieldsOnly
    /\ AliasedSameOutput
    /\ get(out, "city") = "Jaipur"

====
